---- MODULE Spec2Model ----
(***************************************************************************)
(* Contract messaging of nanoservices-utils: the bincode wire format of    *)
(* the contract envelope, the router generated by                          *)
(* register_contract_routes!, the streaming frame codecs, the              *)
(* self-contained contract wrappers and the TCP client/server built on     *)
(* them.  Strings are sequences of bytes (0..255), byte buffers are        *)
(* sequences of bytes, Rust's Result is a record with an ok field.         *)
(***************************************************************************)
EXTENDS Integers, Sequences, FiniteSets, TLC

\* ------------------------------------------------------------------ bounds

\* Longest contract name drawn for ContractOne.name.
MaxStrLen == 2
\* Longest raw byte buffer a peer that does not speak the protocol writes.
MaxRaw == 4
\* Most results one Framed stream is polled for.
MaxReads == 3
\* Most receive calls made on one wrapper stream.
MaxReceives == 3
\* Most bytes of the run of a long payload that one read copies out.
MaxBuffer == 32
\* Most contract variants an envelope is declared with.
MaxVariants == 3
\* Most calls made into the event runtime.
MaxCalls == 3

\* ----------------------------------------------------------------- domains

Byte == 0..255

\* "J" and "o": the characters names are drawn from.
Chars == {74, 111}

RECURSIVE SeqsUpTo(_, _)
SeqsUpTo(S, n) ==
    IF n = 0 THEN {<< >>}
    ELSE LET shorter == SeqsUpTo(S, n - 1)
         IN  shorter \cup {Append(s, c) : s \in shorter, c \in S}

\* Names of ContractOne: short ASCII names and one two-byte UTF-8 character.
Names == SeqsUpTo(Chars, MaxStrLen) \cup {<<195, 169>>}

\* Ages of ContractOne (i32): 255 carries into the second byte when incremented.
Ages == {-1, 0, 32, 255}

\* "Received unknown contract type."
UnknownContractMsg ==
    <<82, 101, 99, 101, 105, 118, 101, 100, 32, 117, 110, 107, 110, 111, 119, 110,
      32, 99, 111, 110, 116, 114, 97, 99, 116, 32, 116, 121, 112, 101, 46>>

\* "no": the message of a failing handler.
HandlerFailedMsg == <<110, 111>>

Messages == {<< >>, HandlerFailedMsg, UnknownContractMsg}

\* NanoServiceErrorStatus, in declaration order.
NanoServiceErrorStatus ==
    <<"NotFound", "Forbidden", "Unknown", "BadRequest", "Conflict",
      "Unauthorized", "ContractNotSupported">>

Statuses == {NanoServiceErrorStatus[i] : i \in 1..Len(NanoServiceErrorStatus)}

\* NanoServiceError::new
NanoServiceError_new(message, status) == [message |-> message, status |-> status]

NanoServiceErrors == {NanoServiceError_new(m, s) : m \in Messages, s \in Statuses}

\* The contract structs of the wrapper tests.
ContractOne(name, age) == [name |-> name, age |-> age]
ContractOnes == {ContractOne(n, a) : n \in Names, a \in Ages}
ContractTwo == [unit |-> "ContractTwo"]
ContractThree == [unit |-> "ContractThree"]

\* The variants create_contract_handler! declares, in declaration order; the
\* NanoServiceError variant comes last.
Variants == <<"ContractOne", "ContractTwo", "ContractThree", "NanoServiceError">>
ContractVariants == {"ContractOne", "ContractTwo", "ContractThree"}

\* enum ContractHandler: exactly one variant with its inner value.
ContractHandler(variant, inner) == [variant |-> variant, inner |-> inner]

Inners(variant) ==
    CASE variant = "ContractOne" -> ContractOnes
      [] variant = "ContractTwo" -> {ContractTwo}
      [] variant = "ContractThree" -> {ContractThree}
      [] variant = "NanoServiceError" -> NanoServiceErrors

Envelopes ==
    UNION {{ContractHandler(v, i) : i \in Inners(v)} : v \in ContractVariants \cup {"NanoServiceError"}}

Ok(val) == [ok |-> TRUE, val |-> val]
Err(e) == [ok |-> FALSE, err |-> e]
\* Option: None, Some(x)
None == [none |-> TRUE]
Some(x) == [some |-> x]

\* ------------------------------------------------------- fixed-width integers

RECURSIVE LEBytes(_, _)
\* The k low bytes of n >= 0, least significant first.
LEBytes(n, k) == IF k = 0 THEN << >> ELSE <<n % 256>> \o LEBytes(n \div 256, k - 1)

RECURSIVE LEVal(_)
\* The number a little-endian byte string holds (evaluated only where FitsInt).
LEVal(bs) == IF bs = << >> THEN 0 ELSE Head(bs) + 256 * LEVal(Tail(bs))

\* The value is below 2^31: every buffer length of the model is far below it, so
\* a length that does not fit is larger than any number of bytes available.
FitsInt(bs) == \A i \in 1..Len(bs) : (i > 4 => bs[i] = 0) /\ (i = 4 => bs[i] < 128)

\* bincode::serialize(&u32): four bytes, little endian.
serialize_u32(n) == LEBytes(n, 4)

\* bincode::serialize(&u64) of a length: eight bytes, little endian.
serialize_u64(n) == LEBytes(n, 8)

\* bincode::serialize(&i32): two's complement, four bytes, little endian.
serialize_i32(n) ==
    IF n >= 0 THEN LEBytes(n, 4)
    ELSE LET low == LEBytes((n + 2147483647) + 1, 4)
         IN  [low EXCEPT ![4] = low[4] + 128]

\* The i32 four little-endian bytes hold.
i32_from_le(bs) ==
    IF bs[4] < 128 THEN LEVal(bs)
    ELSE (LEVal([bs EXCEPT ![4] = bs[4] - 128]) - 2147483647) - 1

\* ------------------------------------------------------------------- UTF-8

IsCont(b) == b >= 128 /\ b <= 191

RECURSIVE Utf8Valid(_)
\* std::str::from_utf8 accepts the bytes.
Utf8Valid(bs) ==
    IF bs = << >> THEN TRUE
    ELSE LET b == bs[1]
             n == Len(bs)
         IN  CASE b < 128 -> Utf8Valid(Tail(bs))
               [] b >= 194 /\ b <= 223 ->
                    /\ n >= 2 /\ IsCont(bs[2])
                    /\ Utf8Valid(SubSeq(bs, 3, n))
               [] b >= 224 /\ b <= 239 ->
                    /\ n >= 3 /\ IsCont(bs[2]) /\ IsCont(bs[3])
                    /\ (b = 224 => bs[2] >= 160)
                    /\ (b = 237 => bs[2] <= 159)
                    /\ Utf8Valid(SubSeq(bs, 4, n))
               [] b >= 240 /\ b <= 244 ->
                    /\ n >= 4 /\ IsCont(bs[2]) /\ IsCont(bs[3]) /\ IsCont(bs[4])
                    /\ (b = 240 => bs[2] >= 144)
                    /\ (b = 244 => bs[2] <= 143)
                    /\ Utf8Valid(SubSeq(bs, 5, n))
               [] OTHER -> FALSE

\* ------------------------------------------------------- bincode: serialize

IndexOf(seq, x) == CHOOSE i \in 1..Len(seq) : seq[i] = x

\* String: the byte count as u64, then the bytes.
serialize_String(s) == serialize_u64(Len(s)) \o s

\* #[derive(Serialize)] struct ContractOne { name: String, age: i32 }
serialize_ContractOne(c) == serialize_String(c.name) \o serialize_i32(c.age)

\* #[derive(Serialize)] enum NanoServiceErrorStatus: the variant index as u32.
serialize_NanoServiceErrorStatus(status) ==
    serialize_u32(IndexOf(NanoServiceErrorStatus, status) - 1)

\* #[derive(Serialize)] struct NanoServiceError { message, status }
serialize_NanoServiceError(e) ==
    serialize_String(e.message) \o serialize_NanoServiceErrorStatus(e.status)

\* bincode::serialize of the inner value of a variant; a unit struct is no bytes.
serialize_inner(variant, inner) ==
    CASE variant = "ContractOne" -> serialize_ContractOne(inner)
      [] variant = "NanoServiceError" -> serialize_NanoServiceError(inner)
      [] OTHER -> << >>

\* bincode_serialize numbering the variants from 1.
bincode_serialize_from_one(e) ==
    serialize_u32(IndexOf(Variants, e.variant)) \o serialize_inner(e.variant, e.inner)

\* #[derive(Serialize)] enum ContractHandler, through bincode::serialize: the
\* variant index (declaration order, from 0) as u32, then the inner value.
bincode_serialize(e) ==
    serialize_u32(IndexOf(Variants, e.variant) - 1) \o serialize_inner(e.variant, e.inner)

\* ----------------------------------------------------- bincode: deserialize
\* A reader returns [ok, val, rest]: the value read and the bytes after it.

Read(val, rest) == [ok |-> TRUE, val |-> val, rest |-> rest]
Drop(bs, n) == SubSeq(bs, n + 1, Len(bs))

\* Four bytes as a u32 kept in bytes (it may exceed what fits a model integer).
read_u32(bs) ==
    IF Len(bs) < 4 THEN Err("UnexpectedEof")
    ELSE Read(SubSeq(bs, 1, 4), Drop(bs, 4))

deserialize_i32(bs) ==
    IF Len(bs) < 4 THEN Err("UnexpectedEof")
    ELSE Read(i32_from_le(SubSeq(bs, 1, 4)), Drop(bs, 4))

\* String: the u64 byte count, that many bytes of the slice, checked as UTF-8.
deserialize_String(bs) ==
    IF Len(bs) < 8 THEN Err("UnexpectedEof")
    ELSE LET lenb == SubSeq(bs, 1, 8)
         IN  IF ~FitsInt(lenb) \/ LEVal(lenb) > Len(bs) - 8 THEN Err("UnexpectedEof")
             ELSE LET s == SubSeq(bs, 9, 8 + LEVal(lenb))
                  IN  IF Utf8Valid(s) THEN Read(s, Drop(bs, 8 + LEVal(lenb)))
                      ELSE Err("InvalidUtf8Encoding")

\* An enum's variant index: a u32 that must name a declared variant.
deserialize_variant(bs, names) ==
    LET r == read_u32(bs)
    IN  IF ~r.ok THEN r
        ELSE IF ~FitsInt(r.val) \/ LEVal(r.val) >= Len(names) THEN Err("InvalidValue")
        ELSE Read(names[LEVal(r.val) + 1], r.rest)

deserialize_ContractOne(bs) ==
    LET name == deserialize_String(bs)
    IN  IF ~name.ok THEN name
        ELSE LET age == deserialize_i32(name.rest)
             IN  IF ~age.ok THEN age
                 ELSE Read(ContractOne(name.val, age.val), age.rest)

deserialize_NanoServiceError(bs) ==
    LET message == deserialize_String(bs)
    IN  IF ~message.ok THEN message
        ELSE LET status == deserialize_variant(message.rest, NanoServiceErrorStatus)
             IN  IF ~status.ok THEN status
                 ELSE Read(NanoServiceError_new(message.val, status.val), status.rest)

deserialize_inner(variant, bs) ==
    CASE variant = "ContractOne" -> deserialize_ContractOne(bs)
      [] variant = "NanoServiceError" -> deserialize_NanoServiceError(bs)
      [] variant = "ContractTwo" -> Read(ContractTwo, bs)
      [] variant = "ContractThree" -> Read(ContractThree, bs)

\* #[derive(Deserialize)] enum ContractHandler read from the front of bs.
deserialize_ContractHandler(bs) ==
    LET variant == deserialize_variant(bs, Variants)
    IN  IF ~variant.ok THEN variant
        ELSE LET inner == deserialize_inner(variant.val, variant.rest)
             IN  IF ~inner.ok THEN inner
                 ELSE Read(ContractHandler(variant.val, inner.val), inner.rest)

\* bincode::deserialize::<ContractHandler>(bytes): the default options read the
\* value from the front of the slice and allow bytes after it.
bincode_deserialize(bs) ==
    LET r == deserialize_ContractHandler(bs)
    IN  IF r.ok THEN Ok(r.val) ELSE Err(r.err)


\* --------------------------------------------------------------- bitcode
\* bitcode::encode / bitcode::decode.  An integer is packed: one packing byte
\* (0: four bytes, 2: two bytes, 4: one byte) and then the integer's low bytes,
\* so a u32 takes 2, 3 or 5 bytes; a u8 is its own byte; a string is its length
\* and its bytes; an enum is its variant index and its fields.  decode reads
\* one value and fails when bytes are missing or left over.

\* The packed form of an integer given as four little-endian bytes.
pack_ints(le) ==
    IF le[2] = 0 /\ le[3] = 0 /\ le[4] = 0 THEN <<4, le[1]>>
    ELSE IF le[3] = 0 /\ le[4] = 0 THEN <<2, le[1], le[2]>>
    ELSE <<0>> \o le

\* Reads one packed integer from the front of bs: its four little-endian bytes.
unpack_ints(bs) ==
    IF bs = << >> THEN Err("Eof")
    ELSE LET width == CASE bs[1] = 4 -> 1 [] bs[1] = 2 -> 2 [] bs[1] = 0 -> 4 [] OTHER -> 0
         IN  IF width = 0 THEN Err("Invalid")
             ELSE IF Len(bs) < 1 + width THEN Err("Eof")
             ELSE Read(SubSeq(bs, 2, 1 + width) \o [i \in 1..(4 - width) |-> 0],
                       Drop(bs, 1 + width))

\* decode's last step: every byte must have been read.
expect_eof(r) == IF ~r.ok THEN Err(r.err) ELSE IF r.rest # << >> THEN Err("ExpectedEof") ELSE Ok(r.val)

\* bitcode::encode(&length) for length: u32
bitcode_encode_u32(n) == pack_ints(LEBytes(n, 4))

\* bitcode::decode::<u32>(bytes): the value in four little-endian bytes.
bitcode_decode_u32(bs) == expect_eof(unpack_ints(bs))

\* bitcode::decode::<u8>(bytes)
bitcode_decode_u8(bs) ==
    expect_eof(IF bs = << >> THEN Err("Eof") ELSE Read(bs[1], Tail(bs)))

bitcode_write_String(s) == <<Len(s)>> \o s

bitcode_read_String(bs) ==
    IF bs = << >> \/ bs[1] = 255 THEN Err("Eof")
    ELSE IF Len(bs) < 1 + bs[1] THEN Err("Eof")
    ELSE IF ~Utf8Valid(SubSeq(bs, 2, 1 + bs[1])) THEN Err("Invalid")
    ELSE Read(SubSeq(bs, 2, 1 + bs[1]), Drop(bs, 1 + bs[1]))

bitcode_read_variant(bs, names) ==
    IF bs = << >> THEN Err("Eof")
    ELSE IF bs[1] >= Len(names) THEN Err("Invalid")
    ELSE Read(names[bs[1] + 1], Tail(bs))

\* #[derive(Encode)] struct ContractOne { name: String, age: i32 }
bitcode_write_ContractOne(c) == bitcode_write_String(c.name) \o pack_ints(serialize_i32(c.age))

\* #[derive(Decode)] struct ContractOne
bitcode_read_ContractOne(bs) ==
    LET name == bitcode_read_String(bs)
    IN  IF ~name.ok THEN name
        ELSE LET age == unpack_ints(name.rest)
             IN  IF ~age.ok THEN age
                 ELSE Read(ContractOne(name.val, i32_from_le(age.val)), age.rest)

\* #[derive(Encode)] struct NanoServiceError
bitcode_write_NanoServiceError(e) ==
    bitcode_write_String(e.message) \o <<IndexOf(NanoServiceErrorStatus, e.status) - 1>>

\* #[derive(Decode)] struct NanoServiceError
bitcode_read_NanoServiceError(bs) ==
    LET message == bitcode_read_String(bs)
    IN  IF ~message.ok THEN message
        ELSE LET status == bitcode_read_variant(message.rest, NanoServiceErrorStatus)
             IN  IF ~status.ok THEN status
                 ELSE Read(NanoServiceError_new(message.val, status.val), status.rest)

\* bitcode::encode of the envelope create_bitcode_contract_handler! generates.
bitcode_encode(e) ==
    <<IndexOf(Variants, e.variant) - 1>> \o
    (CASE e.variant = "ContractOne" -> bitcode_write_ContractOne(e.inner)
       [] e.variant = "NanoServiceError" -> bitcode_write_NanoServiceError(e.inner)
       [] OTHER -> << >>)

\* bitcode::decode of that envelope.
bitcode_decode(bs) ==
    LET variant == bitcode_read_variant(bs, Variants)
    IN  IF ~variant.ok THEN Err(variant.err)
        ELSE LET inner ==
                    CASE variant.val = "ContractOne" -> bitcode_read_ContractOne(variant.rest)
                      [] variant.val = "NanoServiceError" -> bitcode_read_NanoServiceError(variant.rest)
                      [] variant.val = "ContractTwo" -> Read(ContractTwo, variant.rest)
                      [] variant.val = "ContractThree" -> Read(ContractThree, variant.rest)
             IN  IF ~inner.ok THEN Err(inner.err)
                 ELSE expect_eof(Read(ContractHandler(variant.val, inner.val), inner.rest))

\* --------------------------------------------------------- streaming codecs
\* decode(&mut self, src: &mut BytesMut) -> Result<Option<Item>, io::Error>
\* as [result, src]: what it returns and the buffer it leaves.

\* io::Error::new(io::ErrorKind::Other, "deserialize failed")
DecodeFailed == [io |-> "Other", text |-> "deserialize failed"]

\* BincodeCodec_decode that takes a failed deserialization for "no item yet".
BincodeCodec_decode_none_on_error(src) ==
    LET r == bincode_deserialize(src)
    IN  [result |-> IF r.ok THEN Ok(Some(r.val)) ELSE Ok(None), src |-> src]

\* BincodeCodec::decode
BincodeCodec_decode(src) ==
    LET r == bincode_deserialize(src)
    IN  [result |-> IF r.ok THEN Ok(Some(r.val)) ELSE Err(DecodeFailed), src |-> src]

\* VersionedBincodeCodec::decode
VersionedBincodeCodec_decode(src) ==
    LET r == bincode_deserialize(src)
    IN  [result |-> IF r.ok THEN Ok(Some(r.val)) ELSE Err(DecodeFailed), src |-> src]

\* BitcodeCodec::decode
BitcodeCodec_decode(src) ==
    LET r == bitcode_decode(src)
    IN  [result |-> IF r.ok THEN Ok(Some(r.val)) ELSE Err(DecodeFailed), src |-> src]

\* BincodeCodec_encode numbering the envelope's variants from 1.
BincodeCodec_encode_from_one(item, dst) == dst \o bincode_serialize_from_one(item)

\* BincodeCodec::encode and VersionedBincodeCodec::encode: the serialized item
\* is appended to dst.
BincodeCodec_encode(item, dst) == dst \o bincode_serialize(item)

\* BitcodeCodec::encode
BitcodeCodec_encode(item, dst) == dst \o bitcode_encode(item)

Codecs == {"BincodeCodec", "VersionedBincodeCodec", "BitcodeCodec"}

codec_decode(codec, src) ==
    CASE codec = "BincodeCodec" -> BincodeCodec_decode(src)
      [] codec = "VersionedBincodeCodec" -> VersionedBincodeCodec_decode(src)
      [] codec = "BitcodeCodec" -> BitcodeCodec_decode(src)

codec_encode(codec, item, dst) ==
    IF codec = "BitcodeCodec" THEN BitcodeCodec_encode(item, dst)
    ELSE BincodeCodec_encode(item, dst)


\* ------------------------------------------------------ lengths and buffers
\* A usize or u32 length is kept in 16-bit limbs, least significant first (four
\* limbs for a usize, two for a u32): a Vec can hold more bytes than a model
\* integer counts.

RECURSIVE Limbs(_, _)
\* The k low limbs of n >= 0.
Limbs(n, k) == IF k = 0 THEN << >> ELSE <<n % 65536>> \o Limbs(n \div 65536, k - 1)

\* A usize holding n.
usize(n) == Limbs(n, 4)

RECURSIVE usize_add(_, _)
\* n + k for a length n and a model integer k >= 0 (wrapping at the width of n).
usize_add(n, k) ==
    IF n = << >> THEN << >>
    ELSE <<(n[1] + k) % 65536>> \o usize_add(Tail(n), (n[1] + k) \div 65536)

RECURSIVE usize_sub(_, _)
\* n - k for a length n and a model integer 0 <= k <= 65536, k <= n.
usize_sub(n, k) ==
    IF n = << >> THEN << >>
    ELSE IF n[1] >= k THEN <<n[1] - k>> \o Tail(n)
    ELSE <<(n[1] + 65536) - k>> \o usize_sub(Tail(n), 1)

\* `n as u32` for a usize: the low 32 bits.
as_u32(n) == SubSeq(n, 1, 2)

\* `n as usize` for a u32 or a u8.
as_usize(n) == n \o [i \in 1..(4 - Len(n)) |-> 0]

\* `n as u8` for a usize: the low 8 bits.
as_u8(n) == n[1] % 256

RECURSIVE to_le_bytes(_)
\* The little-endian bytes of a length, two per limb.
to_le_bytes(n) ==
    IF n = << >> THEN << >>
    ELSE <<n[1] % 256, n[1] \div 256>> \o to_le_bytes(Tail(n))

RECURSIVE from_le_bytes(_)
\* The length an even number of little-endian bytes hold.
from_le_bytes(bs) ==
    IF bs = << >> THEN << >>
    ELSE <<bs[1] + 256 * bs[2]>> \o from_le_bytes(SubSeq(bs, 3, Len(bs)))

\* The length is one a buffer of the model can have (below 2^31).
Countable(n) == \A i \in 1..Len(n) : (i > 2 => n[i] = 0) /\ (i = 2 => n[i] < 32768)

\* A countable length as a model integer.
Count(n) == n[1] + 65536 * n[2]

\* Vec<u8>.  `bytes` are the bytes written out; a Vec too long to write out
\* has, after its first `at` bytes, a run of `run` (a usize) bytes `fill` that
\* are not written out.
Vec(bytes) == [bytes |-> bytes, at |-> 0, fill |-> 0, run |-> usize(0)]

\* Vec::len
Vec_len(v) == usize_add(v.run, Len(v.bytes))

WrittenOut(v) == v.run = usize(0)

\* ContractHandler::ContractOne(ContractOne { name: "J".repeat(run), age }) for
\* a name of `run` (a usize) bytes, too long to write out.
LongContractOne(run, age) ==
    [variant |-> "ContractOne", long |-> TRUE, fill |-> 74, run |-> run, age |-> age]

IsLong(contract) == "long" \in DOMAIN contract

\* bincode::serialize(&contract) as a Vec.
serialize_to_vec(contract) ==
    IF IsLong(contract)
    THEN [bytes |-> serialize_u32(IndexOf(Variants, contract.variant) - 1)
                    \o to_le_bytes(contract.run) \o serialize_i32(contract.age),
          at |-> 12, fill |-> contract.fill, run |-> contract.run]
    ELSE Vec(bincode_serialize(contract))

\* bincode::deserialize::<ContractHandler>(&vec)
deserialize_from_vec(v) ==
    IF WrittenOut(v) THEN bincode_deserialize(v.bytes)
    ELSE IF /\ v.at = 12 /\ Len(v.bytes) >= 16 /\ v.fill < 128
            /\ SubSeq(v.bytes, 1, 4) = serialize_u32(0)
            /\ from_le_bytes(SubSeq(v.bytes, 5, 12)) = v.run
         THEN Ok([LongContractOne(v.run, i32_from_le(SubSeq(v.bytes, 13, 16)))
                     EXCEPT !.fill = v.fill])
         ELSE Err("UnexpectedEof")

\* A byte stream being read: the bytes not read yet and whether the writer has
\* closed it.  Like a Vec it can hold one run that is not written out: `run`
\* bytes `fill` after its first `at` bytes.
Stream(bytes, closed) ==
    [bytes |-> bytes, closed |-> closed, at |-> 0, fill |-> 0, run |-> usize(0)]

\* A read that does not return in the model: it waits for more bytes, or it
\* fills a buffer larger than the model holds.
Pending == [ok |-> FALSE, err |-> "Pending"]

IsPending(r) == ~r.ok /\ r.err = "Pending"

\* read_exact that returns the bytes it has when the stream ends early.
read_exact_short(stream, n) ==
    IF Countable(n) /\ Count(n) <= Len(stream.bytes)
    THEN Read(SubSeq(stream.bytes, 1, Count(n)),
              [stream EXCEPT !.bytes = Drop(stream.bytes, Count(n))])
    ELSE IF stream.closed THEN Read(stream.bytes, [stream EXCEPT !.bytes = << >>])
    ELSE Pending

\* read_exact(&mut buf) for a buffer of n bytes (n a usize): the next n bytes;
\* it waits while the stream is open and fails at its end, the bytes read so
\* far lost.  A read that reaches the run of a long payload copies out its
\* share of the run.
read_exact(stream, n) ==
    IF WrittenOut(stream)
    THEN IF Countable(n) /\ Count(n) <= Len(stream.bytes)
         THEN Read(SubSeq(stream.bytes, 1, Count(n)),
                   [stream EXCEPT !.bytes = Drop(stream.bytes, Count(n))])
         ELSE IF stream.closed THEN Err("UnexpectedEof")
         ELSE Pending
    ELSE IF Countable(n) /\ Count(n) <= stream.at
    THEN Read(SubSeq(stream.bytes, 1, Count(n)),
              [stream EXCEPT !.bytes = Drop(stream.bytes, Count(n)),
                             !.at = stream.at - Count(n)])
    ELSE IF Countable(n) /\ Count(n) - stream.at <= MaxBuffer /\ ~Countable(stream.run)
    THEN Read(SubSeq(stream.bytes, 1, stream.at)
                  \o [i \in 1..(Count(n) - stream.at) |-> stream.fill],
              [stream EXCEPT !.bytes = Drop(stream.bytes, stream.at),
                             !.at = 0,
                             !.run = usize_sub(stream.run, Count(n) - stream.at)])
    ELSE Pending

\* write_all(&bytes)
write_all(stream, bytes) == [stream EXCEPT !.bytes = stream.bytes \o bytes]

\* write_all(&vec) for a Vec that may be too long to write out (the stream
\* holds no other run).
write_all_vec(stream, v) ==
    IF WrittenOut(v) THEN write_all(stream, v.bytes)
    ELSE [stream EXCEPT !.bytes = stream.bytes \o v.bytes,
                        !.at = Len(stream.bytes) + v.at,
                        !.fill = v.fill,
                        !.run = v.run]

\* ------------------------------------------------------- error messages

\* "Header bytes length is not 4."
HeaderLengthMsg ==
    <<72, 101, 97, 100, 101, 114, 32, 98, 121, 116, 101, 115, 32, 108, 101,
      110, 103, 116, 104, 32, 105, 115, 32, 110, 111, 116, 32, 52, 46>>

\* "failed to fill whole buffer"
FillBufferMsg ==
    <<102, 97, 105, 108, 101, 100, 32, 116, 111, 32, 102, 105, 108, 108, 32,
      119, 104, 111, 108, 101, 32, 98, 117, 102, 102, 101, 114>>

\* "io error: unexpected end of file"
BincodeEofMsg ==
    <<105, 111, 32, 101, 114, 114, 111, 114, 58, 32, 117, 110, 101, 120, 112,
      101, 99, 116, 101, 100, 32, 101, 110, 100, 32, 111, 102, 32, 102, 105,
      108, 101>>

\* "string is not valid utf8"
BincodeUtf8Msg ==
    <<115, 116, 114, 105, 110, 103, 32, 105, 115, 32, 110, 111, 116, 32, 118,
      97, 108, 105, 100, 32, 117, 116, 102, 56>>

\* "invalid value"
BincodeValueMsg ==
    <<105, 110, 118, 97, 108, 105, 100, 32, 118, 97, 108, 117, 101>>

\* "bitcode error"
BitcodeErrorMsg ==
    <<98, 105, 116, 99, 111, 100, 101, 32, 101, 114, 114, 111, 114>>

\* "deserialize failed"
DeserializeFailedMsg ==
    <<100, 101, 115, 101, 114, 105, 97, 108, 105, 122, 101, 32, 102, 97, 105,
      108, 101, 100>>

\* "bytes remaining on stream"
BytesRemainingMsg ==
    <<98, 121, 116, 101, 115, 32, 114, 101, 109, 97, 105, 110, 105, 110, 103,
      32, 111, 110, 32, 115, 116, 114, 101, 97, 109>>

\* e.to_string() of the errors of read_exact, bincode and bitcode.
to_string(e) ==
    CASE e = "FillBuffer" -> FillBufferMsg
      [] e = "UnexpectedEof" -> BincodeEofMsg
      [] e = "InvalidUtf8Encoding" -> BincodeUtf8Msg
      [] e = "InvalidValue" -> BincodeValueMsg
      [] e \in {"Eof", "Invalid", "ExpectedEof"} -> BitcodeErrorMsg

\* .map_err(|e| NanoServiceError::new(e.to_string(), NanoServiceErrorStatus::BadRequest))
BadRequest(e) == NanoServiceError_new(to_string(e), "BadRequest")

\* ------------------------------------------------- BincodeContractWrapper
\* A wrapper is the record of its four (six for bitcode) fields.  receive
\* returns [result, self, stream]: what it returns, the wrapper and the
\* stream it leaves; Pending when it has to wait for bytes.

\* BincodeContractWrapper::new
BincodeContractWrapper_new(contract) ==
    LET contract_bytes == serialize_to_vec(contract)
        length == as_u32(Vec_len(contract_bytes))
        header_bytes_buffer == to_le_bytes(length)
    IN  IF Len(header_bytes_buffer) # 4
        THEN Err(NanoServiceError_new(HeaderLengthMsg, "BadRequest"))
        ELSE Ok([header_bytes |-> Some(SubSeq(header_bytes_buffer, 1, 4)),
                 contract_bytes |-> Some(contract_bytes),
                 header |-> None,
                 contract |-> None])

\* BincodeContractWrapper::empty
BincodeContractWrapper_empty ==
    [header_bytes |-> None, contract_bytes |-> None, header |-> None, contract |-> None]

\* BincodeContractWrapper::blocking_send and async_send
BincodeContractWrapper_send(self, stream) ==
    write_all_vec(write_all(stream, self.header_bytes.some), self.contract_bytes.some)

Received(result, self, stream) == [result |-> result, self |-> self, stream |-> stream]

\* The stream after a read_exact that failed at its end.
Drained(stream) == Stream(<< >>, stream.closed)

\* BincodeContractWrapper::blocking_receive and async_receive
BincodeContractWrapper_receive(self, stream) ==
    LET header_buffer == read_exact(stream, usize(4))
    IN  IF IsPending(header_buffer) THEN Pending
        ELSE IF ~header_buffer.ok
        THEN Received(Err(BadRequest("FillBuffer")), self, Drained(stream))
        ELSE
        LET header == from_le_bytes(header_buffer.val)
            contract_buffer == read_exact(header_buffer.rest, as_usize(header))
        IN  IF IsPending(contract_buffer) THEN Pending
            ELSE IF ~contract_buffer.ok
            THEN Received(Err(BadRequest("FillBuffer")), self, Drained(stream))
            ELSE
            LET contract == bincode_deserialize(contract_buffer.val)
                with_header == [self EXCEPT !.header = Some(header)]
            IN  IF ~contract.ok
                THEN Received(Err(BadRequest(contract.err)), with_header, contract_buffer.rest)
                ELSE Received(Ok("unit"),
                              [with_header EXCEPT !.contract = Some(contract.val)],
                              contract_buffer.rest)

\* ------------------------------------------------- BitcodeContractWrapper

\* BitcodeContractWrapper::new
BitcodeContractWrapper_new(contract) ==
    LET contract_bytes == Vec(bitcode_encode(contract))
        length == as_u32(Vec_len(contract_bytes))
        header_bytes == pack_ints(to_le_bytes(length))
        pre_header_bytes == <<as_u8(usize(Len(header_bytes)))>>
    IN  Ok([pre_header_bytes |-> Some(pre_header_bytes),
            header_bytes |-> Some(header_bytes),
            contract_bytes |-> Some(contract_bytes),
            pre_header |-> None,
            header |-> None,
            contract |-> None])

\* BitcodeContractWrapper::empty
BitcodeContractWrapper_empty ==
    [pre_header_bytes |-> None, header_bytes |-> None, contract_bytes |-> None,
     pre_header |-> None, header |-> None, contract |-> None]

\* BitcodeContractWrapper::blocking_send and async_send
BitcodeContractWrapper_send(self, stream) ==
    write_all_vec(write_all(write_all(stream, self.pre_header_bytes.some),
                            self.header_bytes.some),
                  self.contract_bytes.some)

\* BitcodeContractWrapper::blocking_receive and async_receive
BitcodeContractWrapper_receive(self, stream) ==
    LET pre_header_buffer == read_exact(stream, usize(1))
    IN  IF IsPending(pre_header_buffer) THEN Pending
        ELSE IF ~pre_header_buffer.ok
        THEN Received(Err(BadRequest("FillBuffer")), self, Drained(stream))
        ELSE
        LET pre_header == bitcode_decode_u8(pre_header_buffer.val)
        IN  IF ~pre_header.ok
            THEN Received(Err(BadRequest(pre_header.err)), self, pre_header_buffer.rest)
            ELSE
            LET with_pre_header == [self EXCEPT !.pre_header = Some(pre_header.val)]
                header_buffer == read_exact(pre_header_buffer.rest, usize(pre_header.val))
            IN  IF IsPending(header_buffer) THEN Pending
                ELSE IF ~header_buffer.ok
                THEN Received(Err(BadRequest("FillBuffer")), with_pre_header, Drained(stream))
                ELSE
                LET header == bitcode_decode_u32(header_buffer.val)
                IN  IF ~header.ok
                    THEN Received(Err(BadRequest(header.err)), with_pre_header, header_buffer.rest)
                    ELSE
                    LET contract_buffer ==
                            read_exact(header_buffer.rest, as_usize(from_le_bytes(header.val)))
                    IN  IF IsPending(contract_buffer) THEN Pending
                        ELSE IF ~contract_buffer.ok
                        THEN Received(Err(BadRequest("FillBuffer")), with_pre_header,
                                      Drained(stream))
                        ELSE
                        LET contract == bitcode_decode(contract_buffer.val)
                            with_header ==
                                [with_pre_header EXCEPT !.header = Some(from_le_bytes(header.val))]
                        IN  IF ~contract.ok
                            THEN Received(Err(BadRequest(contract.err)), with_header,
                                          contract_buffer.rest)
                            ELSE Received(Ok("unit"),
                                          [with_header EXCEPT !.contract = Some(contract.val)],
                                          contract_buffer.rest)

WrapperKinds == {"BincodeContractWrapper", "BitcodeContractWrapper"}

wrapper_new(kind, contract) ==
    IF kind = "BincodeContractWrapper" THEN BincodeContractWrapper_new(contract)
    ELSE BitcodeContractWrapper_new(contract)

wrapper_empty(kind) ==
    IF kind = "BincodeContractWrapper" THEN BincodeContractWrapper_empty
    ELSE BitcodeContractWrapper_empty

wrapper_send(kind, self, stream) ==
    IF kind = "BincodeContractWrapper" THEN BincodeContractWrapper_send(self, stream)
    ELSE BitcodeContractWrapper_send(self, stream)

wrapper_receive(kind, self, stream) ==
    IF kind = "BincodeContractWrapper" THEN BincodeContractWrapper_receive(self, stream)
    ELSE BitcodeContractWrapper_receive(self, stream)

\* The payload bytes of a wrapper read back as a contract.
wrapper_decode(kind, contract_bytes) ==
    IF kind = "BincodeContractWrapper" THEN deserialize_from_vec(contract_bytes)
    ELSE bitcode_decode(contract_bytes.bytes)

\* The header bytes of a wrapper read back as a u32.
wrapper_decode_header(kind, header_bytes) ==
    IF kind = "BincodeContractWrapper"
    THEN (IF Len(header_bytes) < 4 THEN Err("UnexpectedEof")
          ELSE Ok(from_le_bytes(SubSeq(header_bytes, 1, 4))))
    ELSE LET header == bitcode_decode_u32(header_bytes)
         IN  IF header.ok THEN Ok(from_le_bytes(header.val)) ELSE header


\* ----------------------------------------------------------------- router
\* register_contract_routes!(handler_enum, fn_name, contract => handler_fn, ...)
\* `bound` is the set of variants the invocation binds a handler to; what a
\* handler returns is its outcome, Ok(contract) or Err(NanoServiceError).

\* What a handler bound to `variant` can return.
HandlerOutcomes(variant) ==
    {Ok(c) : c \in Inners(variant)} \cup {Err(e) : e \in NanoServiceErrors}

\* The arm of the match that received_msg takes: the arm of its own variant when
\* a handler is bound to it, the wildcard arm otherwise.
route_arm(received_msg, bound) ==
    IF received_msg.variant \in bound THEN received_msg.variant ELSE "_"

\* route_return that re-wraps in the first declared variant.
route_return_first_variant(variant, outcome) ==
    IF outcome.ok THEN Ok(ContractHandler(Variants[1], outcome.val))
    ELSE Err(outcome.err)

\* route_return that reports every handler failure as Unknown.
route_return_unknown(variant, outcome) ==
    IF outcome.ok THEN Ok(ContractHandler(variant, outcome.val))
    ELSE Err(NanoServiceError_new(outcome.err.message, "Unknown"))

\* let executed_contract = handler_fn(inner).await?;
\* return Ok(handler_enum::contract(executed_contract));
route_return(variant, outcome) ==
    IF outcome.ok THEN Ok(ContractHandler(variant, outcome.val))
    ELSE Err(outcome.err)

\* route_unknown answering with BadRequest.
route_unknown_bad_request ==
    Err(NanoServiceError_new(UnknownContractMsg, "BadRequest"))

\* The wildcard arm.
route_unknown ==
    Err(NanoServiceError_new(UnknownContractMsg, "ContractNotSupported"))

\* The generated router as a function of the handler's outcome.
handle_contract(received_msg, bound, outcome) ==
    IF route_arm(received_msg, bound) = "_" THEN route_unknown
    ELSE route_return(route_arm(received_msg, bound), outcome)

\* A synchronous router that unwraps the handler's result, as the guest's entry
\* points do.
register_wasm_contract_routes_unwraps(msg, bound, outcome) ==
    IF msg.variant \notin bound
    THEN Err(NanoServiceError_new(UnknownContractMsg, "ContractNotSupported"))
    ELSE IF outcome.ok THEN Ok(ContractHandler(msg.variant, outcome.val))
    ELSE [panic |-> TRUE]

\* The function register_wasm_contract_routes! generates: the arms of the bound
\* contracts in the order of their declaration, each calling its handler (whose
\* result is `outcome`) with `?` and re-wrapping, then the wildcard arm.
register_wasm_contract_routes(msg, bound, outcome) ==
    LET RECURSIVE Arms(_)
        Arms(i) ==
            IF i > Len(Variants)
            THEN Err(NanoServiceError_new(UnknownContractMsg, "ContractNotSupported"))
            ELSE IF Variants[i] \in bound /\ msg.variant = Variants[i]
            THEN (IF outcome.ok THEN Ok([variant |-> Variants[i], inner |-> outcome.val])
                  ELSE Err(outcome.err))
            ELSE Arms(i + 1)
    IN  Arms(1)

\* ------------------------------------------ the envelope's generated methods
\* create_contract_handler!(ContractHandler, V1, ..., Vn) is modelled for any
\* list `variants` of distinct contract type names; an envelope is
\* ContractHandler(variant, inner) as above.

\* The contract types an envelope is declared over: those of the tests and a
\* unit struct Contracttwo.
ContractTypes == {"ContractOne", "ContractTwo", "ContractThree", "Contracttwo"}

\* stringify!($variant): the characters of the type name.
stringify(variant) ==
    CASE variant = "ContractOne" -> <<67, 111, 110, 116, 114, 97, 99, 116, 79, 110, 101>>
      [] variant = "ContractTwo" -> <<67, 111, 110, 116, 114, 97, 99, 116, 84, 119, 111>>
      [] variant = "ContractThree" ->
            <<67, 111, 110, 116, 114, 97, 99, 116, 84, 104, 114, 101, 101>>
      [] variant = "Contracttwo" -> <<67, 111, 110, 116, 114, 97, 99, 116, 116, 119, 111>>
      [] variant = "NanoServiceError" ->
            <<78, 97, 110, 111, 83, 101, 114, 118, 105, 99, 101, 69, 114, 114, 111, 114>>

\* str::to_lowercase with the case left as it is.
to_lowercase_unchanged(s) == s

\* str::to_lowercase (ASCII letters)
to_lowercase(s) == [i \in 1..Len(s) |-> IF s[i] \in 65..90 THEN s[i] + 32 ELSE s[i]]

\* format!("{}_contract", stringify!($variant).to_lowercase())
format_contract(variant) ==
    to_lowercase(stringify(variant)) \o <<95, 99, 111, 110, 116, 114, 97, 99, 116>>

\* "nanoService_error"
NanoServiceErrorTag ==
    <<110, 97, 110, 111, 83, 101, 114, 118, 105, 99, 101, 95, 101, 114, 114, 111, 114>>

\* "Expected variant: "
ExpectedVariantMsg ==
    <<69, 120, 112, 101, 99, 116, 101, 100, 32, 118, 97, 114, 105, 97, 110, 116, 58, 32>>

\* "Failed to deserialize contract"
FailedToDeserializeMsg ==
    <<70, 97, 105, 108, 101, 100, 32, 116, 111, 32, 100, 101, 115, 101, 114, 105, 97, 108,
      105, 122, 101, 32, 99, 111, 110, 116, 114, 97, 99, 116>>

\* The inner values of a variant the methods are called with.
InnersOf(variant) ==
    CASE variant = "ContractOne" ->
            {ContractOne(<< >>, 0), ContractOne(<<74, 111>>, -1), ContractOne(<<195, 169>>, 255)}
      [] variant = "NanoServiceError" ->
            {NanoServiceError_new(<< >>, "NotFound"),
             NanoServiceError_new(HandlerFailedMsg, "BadRequest"),
             NanoServiceError_new(UnknownContractMsg, "ContractNotSupported")}
      [] OTHER -> {[unit |-> variant]}

\* The envelopes of the enum declared over `variants`.
EnvelopesOf(variants) ==
    UNION {{ContractHandler(v, i) : i \in InnersOf(v)} :
              v \in {variants[k] : k \in 1..Len(variants)} \cup {"NanoServiceError"}}

\* The accessor that names the active variant in its message.
accessor_names_active(variant, self) ==
    IF self.variant = variant THEN Ok(self.inner)
    ELSE IF self.variant = "NanoServiceError" THEN Err(self.inner)
    ELSE Err(NanoServiceError_new(ExpectedVariantMsg \o stringify(self.variant), "BadRequest"))

\* pub fn $variant(self) and pub fn NanoServiceError(self)
accessor(variant, self) ==
    IF self.variant = variant THEN Ok(self.inner)
    ELSE IF self.variant = "NanoServiceError" THEN Err(self.inner)
    ELSE Err(NanoServiceError_new(ExpectedVariantMsg \o stringify(variant), "BadRequest"))

\* to_string_ref
to_string_ref(self) ==
    IF self.variant = "NanoServiceError" THEN NanoServiceErrorTag
    ELSE format_contract(self.variant)

\* bincode::deserialize::<$variant>(bytes): the value at the front of the bytes.
deserialize_contract(variant, bytes) ==
    IF variant \in {"ContractOne", "NanoServiceError"} THEN deserialize_inner(variant, bytes)
    ELSE Read([unit |-> variant], bytes)

RECURSIVE from_contract_bytes(_, _, _)
\* from_contract_bytes: the declared contract variants are tried in order.
from_contract_bytes(variants, bytes, string_ref) ==
    IF variants = << >>
    THEN Err(NanoServiceError_new(FailedToDeserializeMsg, "BadRequest"))
    ELSE IF /\ string_ref = format_contract(Head(variants))
            /\ deserialize_contract(Head(variants), bytes).ok
    THEN Ok(ContractHandler(Head(variants), deserialize_contract(Head(variants), bytes).val))
    ELSE from_contract_bytes(Tail(variants), bytes, string_ref)

\* to_contract_bytes: bincode::serialize of the inner value does not fail.
to_contract_bytes(self) == Ok(serialize_inner(self.variant, self.inner))

RECURSIVE internal_index_from(_, _, _)
\* The loop of internal_index, with the index tested before it is incremented.
internal_index_test_first(variants, self, index) ==
    IF variants = << >> THEN 0
    ELSE IF self.variant = Head(variants) THEN index
    ELSE internal_index_from(Tail(variants), self, index + 1)

\* The loop of internal_index: `index += 1; if let $variant(_) = self { return index }`.
internal_index_from(variants, self, index) ==
    IF variants = << >> THEN 0
    ELSE IF self.variant = Head(variants) THEN index + 1
    ELSE internal_index_from(Tail(variants), self, index + 1)

\* internal_index
internal_index(variants, self) == internal_index_from(variants, self, 0)

\* ------------------------------------------------------ TCP client and server
\* The servers of the tests: tcp_server of tcp/client.rs and run_tcp_server of
\* version_testing.rs read and write through Framed with a BincodeCodec, the
\* tcp_server of each wrapper's tests through that wrapper.  Each takes one
\* connection's request; all four are given the envelope and the handlers of
\* the wrapper tests.

\* "No response from server."
NoResponseMsg ==
    <<78, 111, 32, 114, 101, 115, 112, 111, 110, 115, 101, 32, 102, 114, 111,
      109, 32, 115, 101, 114, 118, 101, 114, 46>>

TcpKinds == {"client", "version_testing", "BincodeContractWrapper", "BitcodeContractWrapper"}

IsFramed(kind) == kind \in {"client", "version_testing"}

\* register_contract_routes!(ContractHandler, handle_contract,
\*     ContractOne => handle_test_contract_one, ContractTwo => handle_test_contract_two)
TcpBound == {"ContractOne", "ContractTwo"}

\* A task that panicked.
Panic == [panic |-> TRUE]

IsOk(r) == "ok" \in DOMAIN r /\ r.ok
IsErr(r) == "ok" \in DOMAIN r /\ ~r.ok

\* handle_test_contract_one: contract.age += 1; Ok(contract).  At i32::MAX the
\* addition panics where overflow checks are compiled in and wraps where they
\* are not.
handle_test_contract_one(contract) ==
    IF contract.age = 2147483647
    THEN {Panic, Ok(ContractOne(contract.name, (0 - 2147483647) - 1))}
    ELSE {Ok(ContractOne(contract.name, contract.age + 1))}

\* handle_test_contract_two: Ok(contract)
handle_test_contract_two(contract) == {Ok(contract)}

\* What a bound handler that fails returns.
HandlerFailure == Err(NanoServiceError_new(HandlerFailedMsg, "NotFound"))

\* What the handler the router calls for `data` returns: nothing is called for
\* an unbound variant; `fails` binds handlers that fail in place of the tests'.
TcpHandlerOutcomes(data, fails) ==
    IF data.variant \notin TcpBound THEN {None}
    ELSE IF fails THEN {HandlerFailure}
    ELSE IF data.variant = "ContractOne" THEN handle_test_contract_one(data.inner)
    ELSE handle_test_contract_two(data.inner)

\* The envelope the server answers with: the router's Ok, or its Err wrapped
\* in the NanoServiceError variant; run_tcp_server unwraps the router's result
\* and has no answer for an Err.
server_response(kind, routed) ==
    IF routed.ok THEN Some(routed.val)
    ELSE IF kind = "version_testing" THEN None
    ELSE Some(ContractHandler("NanoServiceError", routed.err))

\* Framed's next() from what decode returned for the bytes read so far (at_eof:
\* the read returned 0 bytes and decode_eof made the call): not ready when
\* decode wants more bytes, else the stream's next element, Some(result) or
\* None.
NotReady == [ready |-> FALSE]
Ready(item) == [ready |-> TRUE, item |-> item]

Framed_poll_next(decoded, at_eof) ==
    IF ~decoded.result.ok THEN Ready(Some(Err(decoded.result.err)))
    ELSE IF decoded.result.val # None THEN Ready(Some(Ok(decoded.result.val.some)))
    ELSE IF ~at_eof THEN NotReady
    ELSE IF decoded.src = << >> THEN Ready(None)
    ELSE Ready(Some(Err([io |-> "Other", text |-> "bytes remaining on stream"])))

\* e.to_string() of an io::Error of the codec layer.
io_to_string(e) ==
    IF e.text = "deserialize failed" THEN DeserializeFailedMsg ELSE BytesRemainingMsg

\* send_data_contract_over_tcp that takes a failed read for an empty answer.
send_data_contract_over_tcp_empty_answer(item) ==
    IF item = None THEN Err(NanoServiceError_new(NoResponseMsg, "BadRequest"))
    ELSE IF item.some.ok THEN Ok(item.some.val)
    ELSE Ok(ContractHandler("ContractTwo", ContractTwo))

\* send_data_contract_over_tcp, from the element framed.next() yielded.
send_data_contract_over_tcp(item) ==
    IF item = None THEN Err(NanoServiceError_new(NoResponseMsg, "BadRequest"))
    ELSE IF item.some.ok THEN Ok(item.some.val)
    ELSE Err(NanoServiceError_new(io_to_string(item.some.err), "BadRequest"))

\* framed.next().await.unwrap().unwrap() of test_tcp_framing_contract_one
unwrap_unwrap(item) ==
    IF item # None /\ item.some.ok THEN Ok(item.some.val) ELSE Panic

\* A client that hands back a frame other than the one it read.
client_returns_other_frame(kind, item) ==
    IF item # None /\ item.some.ok
    THEN Ok(ContractHandler("ContractThree", ContractThree))
    ELSE IF kind = "client" THEN send_data_contract_over_tcp(item) ELSE Panic

\* What the client call returns for the element framed.next() yielded.
client_returns(kind, item) ==
    IF kind = "client" THEN send_data_contract_over_tcp(item) ELSE unwrap_unwrap(item)

\* ================================================================ state

VARIABLES
    \* test_contract_serialization: an envelope, its bytes, the envelope read back
    env_value, env_serialized, env_deserialized, env_pc,
    \* the router: its argument, the bound variants, the handler calls made (in
    \* order), what the awaited handler returned, the router's result
    received_msg, bindings, calls, handler_outcome, route_result, route_pc,
    \* a Framed stream over a socket: the codec, what the sending peer still has
    \* to write, the items it has encoded, the bytes in flight, whether it has
    \* closed; the reader's buffer and flags, the results of its next() calls,
    \* the last call of decode
    codec, to_send, sent, wire, closed, src, is_readable, eof, has_errored,
    frames, last_decode,
    \* the contract wrappers: which wrapper, the contracts still to wrap, the
    \* wrapper new has just built (with its contract), the contracts sent, the
    \* stream they are written to and read from, what each receive returned
    wrapper_kind, w_inputs, w_new, w_sent, w_stream, w_received,
    \* one TCP request and response: which server, the envelope sent, whether the
    \* bound handlers fail, where client and server are, the bytes in flight in
    \* each direction, the Framed read buffers, the client's wrapper, the
    \* contract the server received, what its handler returned, what the client
    \* call returned
    tcp_kind, tcp_request, tcp_fails, client_pc, server_pc, c2s, s2c, server_buf,
    client_buf, client_wrapper, server_data, tcp_outcome, client_result,
    \* the generated methods: the contract types the envelope is declared with,
    \* in order, and the last method call with its arguments and result
    api_variants, api_call,
    \* the event runtime: the registry, what each thread is in the middle of, the
    \* number of calls begun, the registrations that returned (in order), the
    \* publish_event calls (with the buffer and registry they found), the tasks spawned
    HASHMAP, bus_threads, bus_calls, bus_registered, bus_published, bus_tasks,
    \* The guest bridge: the guest's build, heap and memory, the host's position
    \* and locals, and the allocations and frees made so far.
    bridge_build, bridge_heap, bridge_memory, bridge_host, bridge_allocs, bridge_frees,
    \* The proxy's pipe: the proxy's and the guest's position, the bytes in the
    \* child's standard input and output, and what each request left behind.
    pipe_host, pipe_guest, pipe_stdin, pipe_stdout, pipe_log,
    \* The accept loop: the connections, those established and not yet accepted,
    \* and the server's position.
    listener_conns, listener_backlog, listener_server,
    \* One client call: its request and position, the peer, the bytes in the
    \* socket towards the client, the client's buffer, its connects and sends, and
    \* what it returned.
    call_request, call_pc, call_peer, call_socket, call_buf, call_log, call_result,
    \* the registry's RwLock: who holds it, the registry, where each thread's call
    \* is, the calls made, the functions scheduled (with the lock as it was then)
    lock_rw, lock_map, lock_threads, lock_calls, lock_spawned,
    \* the guest's main alone: its standard input, the bytes on its standard output,
    \* its position and line buffer, the lines it has handled, the lines fed to it
    guest_stdin, guest_stdout, guest_main, guest_log, guest_fed

guest_vars == <<guest_stdin, guest_stdout, guest_main, guest_log, guest_fed>>
lock_vars == <<lock_rw, lock_map, lock_threads, lock_calls, lock_spawned>>
call_vars == <<call_request, call_pc, call_peer, call_socket, call_buf, call_log, call_result>>
listener_vars == <<listener_conns, listener_backlog, listener_server>>
pipe_vars == <<pipe_host, pipe_guest, pipe_stdin, pipe_stdout, pipe_log>>
bridge_vars ==
    <<bridge_build, bridge_heap, bridge_memory, bridge_host, bridge_allocs, bridge_frees>>
bus_vars == <<HASHMAP, bus_threads, bus_calls, bus_registered, bus_published, bus_tasks>>
api_vars == <<api_variants, api_call>>
codec_vars == <<codec, to_send, sent, wire, closed, src, is_readable, eof,
                has_errored, frames, last_decode>>
env_vars == <<env_value, env_serialized, env_deserialized, env_pc>>
route_vars == <<received_msg, bindings, calls, handler_outcome, route_result, route_pc>>
wrapper_vars == <<wrapper_kind, w_inputs, w_new, w_sent, w_stream, w_received>>
tcp_vars == <<tcp_kind, tcp_request, tcp_fails, client_pc, server_pc, c2s, s2c, server_buf,
              client_buf, client_wrapper, server_data, tcp_outcome, client_result>>

vars == <<env_vars, route_vars, codec_vars, wrapper_vars, tcp_vars, api_vars, bus_vars, bridge_vars, pipe_vars, listener_vars, call_vars, lock_vars, guest_vars>>

\* What the steps of one component leave alone: the other components.
not_env == <<route_vars, codec_vars, wrapper_vars, tcp_vars, api_vars, bus_vars,
    bridge_vars,
    pipe_vars,
    listener_vars,
    call_vars,
    lock_vars,
    guest_vars>>
not_route == <<env_vars, codec_vars, wrapper_vars, tcp_vars, api_vars, bus_vars,
    bridge_vars,
    pipe_vars,
    listener_vars,
    call_vars,
    lock_vars,
    guest_vars>>
not_codec == <<env_vars, route_vars, wrapper_vars, tcp_vars, api_vars, bus_vars,
    bridge_vars,
    pipe_vars,
    listener_vars,
    call_vars,
    lock_vars,
    guest_vars>>
not_wrapper == <<env_vars, route_vars, codec_vars, tcp_vars, api_vars, bus_vars,
    bridge_vars,
    pipe_vars,
    listener_vars,
    call_vars,
    lock_vars,
    guest_vars>>
not_tcp == <<env_vars, route_vars, codec_vars, wrapper_vars, api_vars, bus_vars,
    bridge_vars,
    pipe_vars,
    listener_vars,
    call_vars,
    lock_vars,
    guest_vars>>
not_api == <<env_vars, route_vars, codec_vars, wrapper_vars, tcp_vars, bus_vars,
    bridge_vars,
    pipe_vars,
    listener_vars,
    call_vars,
    lock_vars,
    guest_vars>>
not_bus == <<env_vars, route_vars, codec_vars, wrapper_vars, tcp_vars, api_vars,
    bridge_vars,
    pipe_vars,
    listener_vars,
    call_vars,
    lock_vars,
    guest_vars>>
not_bridge == <<env_vars, route_vars, codec_vars, wrapper_vars, tcp_vars,
    api_vars, bus_vars,
    pipe_vars,
    listener_vars,
    call_vars,
    lock_vars,
    guest_vars>>
not_pipe == <<env_vars, route_vars, codec_vars, wrapper_vars, tcp_vars,
    api_vars, bus_vars, bridge_vars,
    listener_vars,
    call_vars,
    lock_vars,
    guest_vars>>
not_listener == <<env_vars, route_vars, codec_vars, wrapper_vars, tcp_vars,
    api_vars, bus_vars, bridge_vars, pipe_vars,
    call_vars,
    lock_vars,
    guest_vars>>
not_call == <<env_vars, route_vars, codec_vars, wrapper_vars, tcp_vars,
    api_vars, bus_vars, bridge_vars, pipe_vars, listener_vars,
    lock_vars,
    guest_vars>>
not_lock == <<env_vars, route_vars, codec_vars, wrapper_vars, tcp_vars,
    api_vars, bus_vars, bridge_vars, pipe_vars, listener_vars, call_vars,
    guest_vars>>
not_guest == <<env_vars, route_vars, codec_vars, wrapper_vars, tcp_vars,
    api_vars, bus_vars, bridge_vars, pipe_vars, listener_vars, call_vars, lock_vars>>

\* ------------------------------------------ envelope serialization round trip

EnvInit ==
    /\ env_value \in Envelopes
    /\ env_serialized = None
    /\ env_deserialized = None
    /\ env_pc = "new"

EnvIdle ==
    /\ env_value = None
    /\ env_serialized = None
    /\ env_deserialized = None
    /\ env_pc = "idle"

\* bincode::serialize(&contract).unwrap()
EnvSerialize ==
    /\ env_pc = "new"
    /\ env_serialized' = bincode_serialize(env_value)
    /\ env_pc' = "serialized"
    /\ UNCHANGED <<env_value, env_deserialized>>
    /\ UNCHANGED not_env

\* bincode::deserialize(&serialized)
EnvDeserialize ==
    /\ env_pc = "serialized"
    /\ env_deserialized' = bincode_deserialize(env_serialized)
    /\ env_pc' = "deserialized"
    /\ UNCHANGED <<env_value, env_serialized>>
    /\ UNCHANGED not_env

EnvNext == EnvSerialize \/ EnvDeserialize

\* -------------------------------------------------------------- the router

RouteInit ==
    /\ received_msg \in Envelopes
    /\ bindings \in SUBSET {Variants[i] : i \in 1..Len(Variants)}
    /\ calls = << >>
    /\ handler_outcome = None
    /\ route_result = None
    /\ route_pc = "match"

RouteIdle ==
    /\ received_msg = None
    /\ bindings = {}
    /\ calls = << >>
    /\ handler_outcome = None
    /\ route_result = None
    /\ route_pc = "idle"

\* match msg { handler_enum::contract(inner) => handler_fn(inner) ... }: the arm
\* of a bound variant calls its handler with the unwrapped contract and awaits it.
RouteInvoke ==
    /\ route_pc = "match"
    /\ route_arm(received_msg, bindings) # "_"
    /\ calls' = Append(calls, [handler |-> route_arm(received_msg, bindings),
                               arg |-> received_msg.inner])
    /\ route_pc' = "await"
    /\ UNCHANGED <<received_msg, bindings, handler_outcome, route_result>>
    /\ UNCHANGED not_route

\* The awaited handler returns; `?` returns its error, success is re-wrapped.
RouteHandlerReturns ==
    /\ route_pc = "await"
    /\ \E outcome \in HandlerOutcomes(calls[Len(calls)].handler) :
        /\ handler_outcome' = outcome
        /\ route_result' = route_return(calls[Len(calls)].handler, outcome)
    /\ route_pc' = "done"
    /\ UNCHANGED <<received_msg, bindings, calls>>
    /\ UNCHANGED not_route

\* _ => Err(NanoServiceError::new("Received unknown contract type.", ...))
RouteUnknown ==
    /\ route_pc = "match"
    /\ route_arm(received_msg, bindings) = "_"
    /\ route_result' = route_unknown
    /\ route_pc' = "done"
    /\ UNCHANGED <<received_msg, bindings, calls, handler_outcome>>
    /\ UNCHANGED not_route

RouteNext == RouteInvoke \/ RouteHandlerReturns \/ RouteUnknown

\* ------------------------------------------------- a Framed stream and codec

\* The envelopes a peer sends through the codec.
CodecItems ==
    {ContractHandler("ContractOne", ContractOne(<<74>>, 32)),
     ContractHandler("ContractTwo", ContractTwo),
     ContractHandler("ContractThree", ContractThree),
     ContractHandler("NanoServiceError", NanoServiceError_new(HandlerFailedMsg, "Conflict"))}

encode_item(c, item) == codec_encode(c, item, << >>)

\* Bytes a peer that does not speak the protocol writes: short buffers, and
\* encoded items with one byte overwritten.
RawBytes == {0, 1, 4, 255}

Corrupted(c) ==
    UNION {{[encode_item(c, item) EXCEPT ![i] = 255] : i \in 1..Len(encode_item(c, item))} :
              item \in CodecItems}

RawBuffers(c) == (SeqsUpTo(RawBytes, MaxRaw) \ {<< >>}) \cup Corrupted(c)

Item(e) == [item |-> e]
Raw(bs) == [raw |-> bs]

CodecInit ==
    /\ codec \in Codecs
    /\ to_send \in {<<Item(a)>> : a \in CodecItems}
            \cup {<<Item(a), Item(b)>> : a \in CodecItems, b \in CodecItems}
            \cup {<<Raw(bs)>> : bs \in RawBuffers(codec)}
            \cup {<<Item(a), Raw(bs)>> : a \in CodecItems, bs \in {<<255>>, <<0, 0>>}}
    /\ sent = << >>
    /\ wire = << >>
    /\ closed = FALSE
    /\ src = << >>
    /\ is_readable = FALSE
    /\ eof = FALSE
    /\ has_errored = FALSE
    /\ frames = << >>
    /\ last_decode = None

CodecIdle ==
    /\ codec = None
    /\ to_send = << >>
    /\ sent = << >>
    /\ wire = << >>
    /\ closed = TRUE
    /\ src = << >>
    /\ is_readable = FALSE
    /\ eof = FALSE
    /\ has_errored = FALSE
    /\ frames = << >>
    /\ last_decode = None

\* framed.send(item): Encoder::encode appends the item to the write buffer,
\* which is flushed to the socket.
CodecSend ==
    /\ to_send # << >>
    /\ "item" \in DOMAIN Head(to_send)
    /\ wire' = codec_encode(codec, Head(to_send).item, wire)
    /\ sent' = Append(sent, Head(to_send).item)
    /\ to_send' = Tail(to_send)
    /\ UNCHANGED <<codec, closed, src, is_readable, eof, has_errored, frames, last_decode>>
    /\ UNCHANGED not_codec

\* A peer writes bytes that no encoder produced.
CodecWriteRaw ==
    /\ to_send # << >>
    /\ "raw" \in DOMAIN Head(to_send)
    /\ wire' = wire \o Head(to_send).raw
    /\ to_send' = Tail(to_send)
    /\ UNCHANGED <<codec, sent, closed, src, is_readable, eof, has_errored, frames, last_decode>>
    /\ UNCHANGED not_codec

\* The sending peer closes its side once it has written everything.
CodecClose ==
    /\ to_send = << >>
    /\ ~closed
    /\ closed' = TRUE
    /\ UNCHANGED <<codec, to_send, sent, wire, src, is_readable, eof, has_errored, frames, last_decode>>
    /\ UNCHANGED not_codec

\* Framed's next(): no frame is due from the buffer, so it reads what the socket
\* holds, any non-empty part of the bytes in flight, into the buffer.
FramedRead ==
    /\ Len(frames) < MaxReads
    /\ ~has_errored /\ ~is_readable
    /\ wire # << >>
    /\ \E k \in 1..Len(wire) :
        /\ src' = src \o SubSeq(wire, 1, k)
        /\ wire' = Drop(wire, k)
    /\ eof' = FALSE
    /\ is_readable' = TRUE
    /\ UNCHANGED <<codec, to_send, sent, closed, has_errored, frames, last_decode>>
    /\ UNCHANGED not_codec

\* Framed's next(): the read returns 0 bytes, the peer has closed.  The first
\* time the buffer is handed to decode_eof, the second time the stream ends.
FramedReadEof ==
    /\ Len(frames) < MaxReads
    /\ ~has_errored /\ ~is_readable
    /\ wire = << >> /\ closed
    /\ IF eof
       THEN /\ frames' = Append(frames, None)
            /\ UNCHANGED <<eof, is_readable>>
       ELSE /\ eof' = TRUE
            /\ is_readable' = TRUE
            /\ UNCHANGED frames
    /\ UNCHANGED <<codec, to_send, sent, wire, closed, src, has_errored, last_decode>>
    /\ UNCHANGED not_codec

\* Framed's next(): the buffer is readable, so it is handed to Decoder::decode
\* (to the default decode_eof after the peer closed, which calls decode and
\* takes "no item" on a non-empty buffer for an error).
FramedDecode ==
    /\ Len(frames) < MaxReads
    /\ ~has_errored /\ is_readable
    /\ \E r \in {codec_decode(codec, src)} :
       \E left \in {r.result.ok /\ r.result.val = None /\ eof /\ r.src # << >>} :
           /\ last_decode' = [input |-> src, result |-> r.result, src |-> r.src]
           /\ src' = r.src
           /\ IF ~r.result.ok \/ left
              THEN /\ has_errored' = TRUE
                   /\ frames' = Append(frames, IF left THEN Err([io |-> "Other", text |-> "bytes remaining on stream"]) ELSE r.result)
                   /\ UNCHANGED is_readable
              ELSE IF r.result.val = None
              THEN /\ is_readable' = FALSE
                   /\ frames' = IF eof THEN Append(frames, None) ELSE frames
                   /\ UNCHANGED has_errored
              ELSE /\ frames' = Append(frames, Ok(r.result.val.some))
                   /\ UNCHANGED <<is_readable, has_errored>>
    /\ UNCHANGED <<codec, to_send, sent, wire, closed, eof>>
    /\ UNCHANGED not_codec

\* Framed's next() after the decoder returned an error: the stream yields None
\* once and is polled afresh after it.
FramedErrored ==
    /\ Len(frames) < MaxReads
    /\ has_errored
    /\ has_errored' = FALSE
    /\ is_readable' = FALSE
    /\ frames' = Append(frames, None)
    /\ UNCHANGED <<codec, to_send, sent, wire, closed, src, eof, last_decode>>
    /\ UNCHANGED not_codec

CodecNext ==
    \/ CodecSend \/ CodecWriteRaw \/ CodecClose
    \/ FramedRead \/ FramedReadEof \/ FramedDecode \/ FramedErrored

\* ------------------------------------------------- the contract wrappers

\* Contracts whose bincode encoding takes 2^32 and 2^32 + 21 bytes.
LongContracts ==
    {LongContractOne(<<65520, 65535, 0, 0>>, 32), LongContractOne(<<5, 0, 1, 0>>, 32)}

\* The contracts handed to new, in order: any one envelope, or two of the
\* envelopes of the codec tests.  (The bitcode layout of a long String is not
\* modelled.)
WrapperInputs(kind) ==
    {<<a>> : a \in Envelopes \cup (IF kind = "BincodeContractWrapper" THEN LongContracts ELSE {})}
        \cup {<<a, b>> : a \in CodecItems, b \in CodecItems}

WrapperInit ==
    /\ wrapper_kind \in WrapperKinds
    /\ w_inputs \in WrapperInputs(wrapper_kind)
    /\ w_new = None
    /\ w_sent = << >>
    /\ w_stream = Stream(<< >>, FALSE)
    /\ w_received = << >>

WrapperIdle ==
    /\ wrapper_kind = None
    /\ w_inputs = << >>
    /\ w_new = None
    /\ w_sent = << >>
    /\ w_stream = Stream(<< >>, TRUE)
    /\ w_received = << >>

\* let wrapper = Wrapper::new(contract)
WrapperNew ==
    /\ w_inputs # << >>
    /\ w_new = None
    /\ w_new' = [contract |-> Head(w_inputs),
                 result |-> wrapper_new(wrapper_kind, Head(w_inputs))]
    /\ w_inputs' = Tail(w_inputs)
    /\ UNCHANGED <<wrapper_kind, w_sent, w_stream, w_received>>
    /\ UNCHANGED not_wrapper

\* wrapper.blocking_send(&mut stream) / wrapper.async_send(&mut stream).await
WrapperSend ==
    /\ w_new # None
    /\ w_new.result.ok
    /\ WrittenOut(w_new.result.val.contract_bytes.some) \/ WrittenOut(w_stream)
    /\ ~w_stream.closed
    /\ w_stream' = wrapper_send(wrapper_kind, w_new.result.val, w_stream)
    /\ w_sent' = Append(w_sent, w_new.contract)
    /\ w_new' = None
    /\ UNCHANGED <<wrapper_kind, w_inputs, w_received>>
    /\ UNCHANGED not_wrapper

\* The wrapper is dropped without being sent.
WrapperDrop ==
    /\ w_new # None
    /\ w_new' = None
    /\ UNCHANGED <<wrapper_kind, w_inputs, w_sent, w_stream, w_received>>
    /\ UNCHANGED not_wrapper

\* The sender closes the stream after its last frame.
WrapperClose ==
    /\ w_inputs = << >> /\ w_new = None
    /\ ~w_stream.closed
    /\ w_stream' = [w_stream EXCEPT !.closed = TRUE]
    /\ UNCHANGED <<wrapper_kind, w_inputs, w_new, w_sent, w_received>>
    /\ UNCHANGED not_wrapper

\* The connection breaks: the last bytes in flight are lost and the stream ends.
WrapperCut ==
    /\ w_inputs = << >> /\ w_new = None
    /\ ~w_stream.closed
    /\ w_stream.bytes # << >>
    /\ \E k \in 0..(Len(w_stream.bytes) - 1) :
        w_stream' = IF WrittenOut(w_stream) \/ k <= w_stream.at
                    THEN Stream(SubSeq(w_stream.bytes, 1, k), TRUE)
                    ELSE [w_stream EXCEPT !.bytes = SubSeq(w_stream.bytes, 1, k),
                                          !.closed = TRUE]
    /\ UNCHANGED <<wrapper_kind, w_inputs, w_new, w_sent, w_received>>
    /\ UNCHANGED not_wrapper

\* let mut wrapper = Wrapper::empty(); wrapper.blocking_receive(&mut stream)
\* (or async_receive), once the bytes it waits for have arrived.
WrapperReceive ==
    /\ Len(w_received) < MaxReceives
    /\ \E r \in {wrapper_receive(wrapper_kind, wrapper_empty(wrapper_kind), w_stream)} :
        /\ r # Pending
        /\ w_received' = Append(w_received,
                                [result |-> r.result, self |-> r.self,
                                 before |-> w_stream, after |-> r.stream])
        /\ w_stream' = r.stream
    /\ UNCHANGED <<wrapper_kind, w_inputs, w_new, w_sent>>
    /\ UNCHANGED not_wrapper

WrapperNext ==
    \/ WrapperNew \/ WrapperSend \/ WrapperDrop \/ WrapperClose \/ WrapperCut
    \/ WrapperReceive

\* ------------------------------------------------- TCP request and response

\* The envelopes a client sends.
TcpRequests ==
    {ContractHandler("ContractOne", ContractOne(<<74>>, 32)),
     ContractHandler("ContractOne", ContractOne(<<74, 111>>, 255)),
     ContractHandler("ContractOne", ContractOne(<< >>, 2147483647)),
     ContractHandler("ContractTwo", ContractTwo),
     ContractHandler("ContractThree", ContractThree),
     ContractHandler("NanoServiceError", NanoServiceError_new(HandlerFailedMsg, "Conflict"))}

TcpInit ==
    /\ tcp_kind \in TcpKinds
    /\ tcp_request \in TcpRequests
    /\ tcp_fails \in BOOLEAN
    /\ client_pc = "send"
    /\ server_pc = "receive"
    /\ c2s = Stream(<< >>, FALSE)
    /\ s2c = Stream(<< >>, FALSE)
    /\ server_buf = << >>
    /\ client_buf = << >>
    /\ client_wrapper = None
    /\ server_data = None
    /\ tcp_outcome = None
    /\ client_result = None

TcpIdle ==
    /\ tcp_kind = None
    /\ tcp_request = None
    /\ tcp_fails = FALSE
    /\ client_pc = "idle"
    /\ server_pc = "idle"
    /\ c2s = Stream(<< >>, TRUE)
    /\ s2c = Stream(<< >>, TRUE)
    /\ server_buf = << >>
    /\ client_buf = << >>
    /\ client_wrapper = None
    /\ server_data = None
    /\ tcp_outcome = None
    /\ client_result = None

\* framed.send(contract).await
ClientFramedSend ==
    /\ client_pc = "send"
    /\ IsFramed(tcp_kind)
    /\ c2s' = write_all(c2s, BincodeCodec_encode(tcp_request, << >>))
    /\ client_pc' = "receive"
    /\ UNCHANGED <<tcp_kind, tcp_request, tcp_fails, server_pc, s2c, server_buf, client_buf,
                   client_wrapper, server_data, tcp_outcome, client_result>>
    /\ UNCHANGED not_tcp

\* let mut wrapper = Wrapper::new(contract).unwrap(); wrapper.send(&mut stream)
ClientWrapperSend ==
    /\ client_pc = "send"
    /\ ~IsFramed(tcp_kind)
    /\ \E w \in {wrapper_new(tcp_kind, tcp_request)} :
        /\ w.ok
        /\ client_wrapper' = w.val
        /\ c2s' = wrapper_send(tcp_kind, w.val, c2s)
    /\ client_pc' = "receive"
    /\ UNCHANGED <<tcp_kind, tcp_request, tcp_fails, server_pc, s2c, server_buf, client_buf,
                   server_data, tcp_outcome, client_result>>
    /\ UNCHANGED not_tcp

\* The server's framed.next(): the socket hands over any non-empty part of the
\* bytes in flight and the buffer goes to decode.  Ok(data) is handled; on an
\* Err the server prints it, breaks and drops the connection.
ServerFramedNext ==
    /\ server_pc = "receive"
    /\ IsFramed(tcp_kind)
    /\ c2s.bytes # << >>
    /\ \E k \in 1..Len(c2s.bytes) :
       \E decoded \in {BincodeCodec_decode(server_buf \o SubSeq(c2s.bytes, 1, k))} :
       \E p \in {Framed_poll_next(decoded, FALSE)} :
        /\ c2s' = [c2s EXCEPT !.bytes = Drop(c2s.bytes, k)]
        /\ server_buf' = server_buf \o SubSeq(c2s.bytes, 1, k)
        /\ IF ~p.ready
           THEN UNCHANGED <<server_pc, server_data, s2c>>
           ELSE IF p.item # None /\ p.item.some.ok
           THEN /\ server_data' = p.item.some.val
                /\ server_pc' = "handle"
                /\ UNCHANGED s2c
           ELSE /\ server_pc' = "done"
                /\ s2c' = [s2c EXCEPT !.closed = TRUE]
                /\ UNCHANGED server_data
    /\ UNCHANGED <<tcp_kind, tcp_request, tcp_fails, client_pc, client_buf, client_wrapper,
                   tcp_outcome, client_result>>
    /\ UNCHANGED not_tcp

\* recieving_wrapper.async_receive(&mut socket).await.unwrap(), once the bytes
\* it waits for have arrived; the server task panics on an Err.
ServerWrapperReceive ==
    /\ server_pc = "receive"
    /\ ~IsFramed(tcp_kind)
    /\ \E r \in {wrapper_receive(tcp_kind, wrapper_empty(tcp_kind), c2s)} :
        /\ r # Pending
        /\ c2s' = r.stream
        /\ IF r.result.ok
           THEN /\ server_data' = r.self.contract.some
                /\ server_pc' = "handle"
                /\ UNCHANGED s2c
           ELSE /\ server_pc' = "panicked"
                /\ s2c' = [s2c EXCEPT !.closed = TRUE]
                /\ UNCHANGED server_data
    /\ UNCHANGED <<tcp_kind, tcp_request, tcp_fails, client_pc, server_buf, client_buf,
                   client_wrapper, tcp_outcome, client_result>>
    /\ UNCHANGED not_tcp

\* handle_contract(data).await, the answer written to the socket, break: the
\* connection is dropped after the answer.  A panic drops it with no answer.
ServerHandle ==
    /\ server_pc = "handle"
    /\ \E outcome \in TcpHandlerOutcomes(server_data, tcp_fails) :
        /\ tcp_outcome' = outcome
        /\ IF outcome = Panic
           THEN /\ server_pc' = "panicked"
                /\ s2c' = [s2c EXCEPT !.closed = TRUE]
           ELSE \E response \in {server_response(tcp_kind,
                                    handle_contract(server_data, TcpBound, outcome))} :
                IF response = None
                THEN /\ server_pc' = "panicked"
                     /\ s2c' = [s2c EXCEPT !.closed = TRUE]
                ELSE /\ server_pc' = "done"
                     /\ s2c' = [(IF IsFramed(tcp_kind)
                                 THEN write_all(s2c, BincodeCodec_encode(response.some, << >>))
                                 ELSE wrapper_send(tcp_kind,
                                                   wrapper_new(tcp_kind, response.some).val, s2c))
                                   EXCEPT !.closed = TRUE]
    /\ UNCHANGED <<tcp_kind, tcp_request, tcp_fails, client_pc, c2s, server_buf, client_buf,
                   client_wrapper, server_data, client_result>>
    /\ UNCHANGED not_tcp

\* The client's framed.next(): any non-empty part of the bytes in flight, or
\* the end of the stream once the server has dropped the connection.
ClientFramedNext ==
    /\ client_pc = "receive"
    /\ IsFramed(tcp_kind)
    /\ s2c.bytes # << >> \/ s2c.closed
    /\ \E k \in (IF s2c.bytes = << >> THEN {0} ELSE 1..Len(s2c.bytes)) :
       \E decoded \in {BincodeCodec_decode(client_buf \o SubSeq(s2c.bytes, 1, k))} :
       \E p \in {Framed_poll_next(decoded, k = 0)} :
        /\ s2c' = [s2c EXCEPT !.bytes = Drop(s2c.bytes, k)]
        /\ client_buf' = client_buf \o SubSeq(s2c.bytes, 1, k)
        /\ IF ~p.ready
           THEN UNCHANGED <<client_pc, client_result>>
           ELSE /\ client_result' = client_returns(tcp_kind, p.item)
                /\ client_pc' = "done"
    /\ UNCHANGED <<tcp_kind, tcp_request, tcp_fails, server_pc, c2s, server_buf, client_wrapper,
                   server_data, tcp_outcome>>
    /\ UNCHANGED not_tcp

\* wrapper.receive(&mut stream) on the wrapper the request was sent from, once
\* the bytes it waits for have arrived; Ok gives wrapper.contract.
ClientWrapperReceive ==
    /\ client_pc = "receive"
    /\ ~IsFramed(tcp_kind)
    /\ \E r \in {wrapper_receive(tcp_kind, client_wrapper, s2c)} :
        /\ r # Pending
        /\ s2c' = r.stream
        /\ client_wrapper' = r.self
        /\ client_result' = IF r.result.ok THEN Ok(r.self.contract.some) ELSE r.result
    /\ client_pc' = "done"
    /\ UNCHANGED <<tcp_kind, tcp_request, tcp_fails, server_pc, c2s, server_buf, client_buf,
                   server_data, tcp_outcome>>
    /\ UNCHANGED not_tcp

TcpNext ==
    \/ ClientFramedSend \/ ClientWrapperSend
    \/ ServerFramedNext \/ ServerWrapperReceive \/ ServerHandle
    \/ ClientFramedNext \/ ClientWrapperReceive

\* ------------------------------------------- calls of the generated methods

\* The lists of contract types create_contract_handler! is invoked with: at
\* least one type, no type twice.
Declarations ==
    {v \in SeqsUpTo(ContractTypes, MaxVariants) :
        v # << >> /\ \A i, j \in 1..Len(v) : v[i] = v[j] => i = j}

\* The variants of the declared enum.
DeclaredVariants == {api_variants[k] : k \in 1..Len(api_variants)} \cup {"NanoServiceError"}

\* Byte strings handed to from_contract_bytes: every inner value serialized,
\* and one that no type is read from when a String is expected.
ContractBytes == {to_contract_bytes(e).val : e \in EnvelopesOf(api_variants)} \cup {<<1>>}

\* Tags handed to from_contract_bytes: every tag of the enum and an unknown one.
StringRefs == {to_string_ref(e) : e \in EnvelopesOf(api_variants)} \cup {<< >>}

ApiInit ==
    /\ api_variants \in Declarations
    /\ api_call = None

ApiIdle ==
    /\ api_variants = << >>
    /\ api_call = None

\* envelope.V() for a declared variant V, envelope.NanoServiceError()
ApiAccessor ==
    /\ \E self \in EnvelopesOf(api_variants) : \E variant \in DeclaredVariants :
        api_call' = [op |-> "accessor", self |-> self, variant |-> variant,
                     result |-> accessor(variant, self)]
    /\ UNCHANGED api_variants
    /\ UNCHANGED not_api

\* envelope.to_string_ref()
ApiToStringRef ==
    /\ \E self \in EnvelopesOf(api_variants) :
        api_call' = [op |-> "to_string_ref", self |-> self, result |-> to_string_ref(self)]
    /\ UNCHANGED api_variants
    /\ UNCHANGED not_api

\* ContractHandler::from_contract_bytes(&bytes, string_ref)
ApiFromContractBytes ==
    /\ \E bytes \in ContractBytes : \E string_ref \in StringRefs :
        api_call' = [op |-> "from_contract_bytes", bytes |-> bytes, string_ref |-> string_ref,
                     result |-> from_contract_bytes(api_variants, bytes, string_ref)]
    /\ UNCHANGED api_variants
    /\ UNCHANGED not_api

\* envelope.to_contract_bytes()
ApiToContractBytes ==
    /\ \E self \in EnvelopesOf(api_variants) :
        api_call' = [op |-> "to_contract_bytes", self |-> self,
                     result |-> to_contract_bytes(self)]
    /\ UNCHANGED api_variants
    /\ UNCHANGED not_api

\* envelope.internal_index()
ApiInternalIndex ==
    /\ \E self \in EnvelopesOf(api_variants) :
        api_call' = [op |-> "internal_index", self |-> self,
                     result |-> internal_index(api_variants, self)]
    /\ UNCHANGED api_variants
    /\ UNCHANGED not_api

ApiNext ==
    \/ ApiAccessor \/ ApiToStringRef \/ ApiFromContractBytes \/ ApiToContractBytes
    \/ ApiInternalIndex

\* ------------------------------------------------------ the tokio event bus
\* config_tokio_event_runtime!: HASHMAP maps an event name to the buffer of the
\* functions subscribed to it.  Threads call insert_into_hashmap and
\* publish_event; every access of HASHMAP under its lock is one step.

\* The threads calling into the event runtime.
Threads == {1, 2}

\* The event names: the type names subscribers register under.
EventNames == {"ContractOne", "ContractTwo"}

\* The routed functions #[subscribe_to_event] generates, and the type each
\* deserializes its bytes to.
EventFunctions == {"routed_one", "routed_two"}

ParamType(func) == IF func = "routed_one" THEN "ContractOne" ELSE "ContractTwo"

\* The bytes published: a serialized ContractOne and no bytes at all (a
\* serialized unit struct).
EventData == {serialize_ContractOne(ContractOne(<<74>>, 32)), << >>}

\* get_from_hashmap that falls back on the buffer of another name.
get_from_hashmap_any(map, name) ==
    IF map[name] # None \/ \A n \in DOMAIN map : map[n] = None THEN map[name]
    ELSE map[CHOOSE n \in DOMAIN map : map[n] # None]

\* get_from_hashmap: HASHMAP.read().unwrap().get(name).cloned()
get_from_hashmap(map, name) == map[name]

\* .unwrap_or_else(|| vec![])
unwrap_or_else(option, default) == IF option = None THEN default ELSE option.some

\* data.clone() that leaves the bytes behind.
Vec_clone_empty(data) == << >>

\* data.clone()
Vec_clone(data) == data

\* The routed function that fails on every empty payload.
routed_fails_on_empty(func, data) ==
    IF data # << >> /\ deserialize_contract(ParamType(func), data).ok THEN "completed"
    ELSE "panicked"

\* routed_<fn>(data), awaited in its task: deserialize(&data).unwrap(), then the
\* subscriber function.
routed(func, data) ==
    IF deserialize_contract(ParamType(func), data).ok THEN "completed" ELSE "panicked"

\* tokio::spawn(async move { boxed_future.await }) for the call f(data.clone())
\* of the publish_event call `publish`.
spawn(publish, func, data) ==
    [publish |-> publish, func |-> func, data |-> Vec_clone(data), state |-> "spawned"]

BusIdleThread == [pc |-> "idle"]

BusInit ==
    /\ HASHMAP = [n \in EventNames |-> None]
    /\ bus_threads = [t \in Threads |-> BusIdleThread]
    /\ bus_calls = 0
    /\ bus_registered = << >>
    /\ bus_published = << >>
    /\ bus_tasks = << >>

BusIdle ==
    /\ HASHMAP = << >>
    /\ bus_threads = << >>
    /\ bus_calls = 0
    /\ bus_registered = << >>
    /\ bus_published = << >>
    /\ bus_tasks = << >>

\* insert_into_hashmap(name, func), to the push:
\* let mut buffer = get_from_hashmap(&name).unwrap_or_else(|| vec![]); buffer.push(func)
BusInsertRead ==
    /\ bus_calls < MaxCalls
    /\ \E t \in Threads : \E name \in EventNames : \E func \in EventFunctions :
        /\ bus_threads[t].pc = "idle"
        /\ bus_threads' =
              [bus_threads EXCEPT ![t] =
                  [pc |-> "insert", name |-> name, func |-> func,
                   buffer |-> Append(unwrap_or_else(get_from_hashmap(HASHMAP, name), << >>),
                                     func)]]
    /\ bus_calls' = bus_calls + 1
    /\ UNCHANGED <<HASHMAP, bus_registered, bus_published, bus_tasks>>
    /\ UNCHANGED not_bus

\* insert_into_hashmap, the rest: HASHMAP.write().unwrap().insert(name, buffer)
BusInsertWrite ==
    /\ \E t \in Threads :
        /\ bus_threads[t].pc = "insert"
        /\ HASHMAP' = [HASHMAP EXCEPT ![bus_threads[t].name] = Some(bus_threads[t].buffer)]
        /\ bus_registered' = Append(bus_registered,
                                    [name |-> bus_threads[t].name, func |-> bus_threads[t].func])
        /\ bus_threads' = [bus_threads EXCEPT ![t] = BusIdleThread]
    /\ UNCHANGED <<bus_calls, bus_published, bus_tasks>>
    /\ UNCHANGED not_bus

\* publish_event(name, data), to the loop: the buffer is looked up; with no
\* buffer the call prints and returns.
BusPublishLookup ==
    /\ bus_calls < MaxCalls
    /\ \E t \in Threads : \E name \in EventNames : \E data \in EventData :
       \E buffer \in {get_from_hashmap(HASHMAP, name)} :
        /\ bus_threads[t].pc = "idle"
        /\ bus_published' = Append(bus_published,
                                   [name |-> name, data |-> data, buffer |-> buffer,
                                    map |-> HASHMAP, returned |-> buffer = None])
        /\ bus_threads' =
              [bus_threads EXCEPT ![t] =
                  IF buffer = None THEN BusIdleThread
                  ELSE [pc |-> "publish", publish |-> Len(bus_published) + 1,
                        data |-> data, buffer |-> buffer.some]]
    /\ bus_calls' = bus_calls + 1
    /\ UNCHANGED <<HASHMAP, bus_registered, bus_tasks>>
    /\ UNCHANGED not_bus

\* publish_event, one turn of `for f in buffer`: f(data.clone()) is spawned;
\* after the last turn the call returns.
BusPublishSpawn ==
    /\ \E t \in Threads :
        /\ bus_threads[t].pc = "publish"
        /\ bus_tasks' = Append(bus_tasks,
                               spawn(bus_threads[t].publish, Head(bus_threads[t].buffer),
                                     bus_threads[t].data))
        /\ IF Tail(bus_threads[t].buffer) = << >>
           THEN /\ bus_threads' = [bus_threads EXCEPT ![t] = BusIdleThread]
                /\ bus_published' =
                      [bus_published EXCEPT ![bus_threads[t].publish].returned = TRUE]
           ELSE /\ bus_threads' =
                      [bus_threads EXCEPT ![t].buffer = Tail(bus_threads[t].buffer)]
                /\ UNCHANGED bus_published
    /\ UNCHANGED <<HASHMAP, bus_calls, bus_registered>>
    /\ UNCHANGED not_bus

\* The runtime runs a spawned task to its end: the routed function completes
\* or panics; a panic ends that task alone.
BusTaskRun ==
    /\ \E i \in 1..Len(bus_tasks) :
        /\ bus_tasks[i].state = "spawned"
        /\ bus_tasks' = [bus_tasks EXCEPT ![i].state = routed(bus_tasks[i].func, bus_tasks[i].data)]
    /\ UNCHANGED <<HASHMAP, bus_threads, bus_calls, bus_registered, bus_published>>
    /\ UNCHANGED not_bus

BusNext ==
    \/ BusInsertRead \/ BusInsertWrite \/ BusPublishLookup \/ BusPublishSpawn
    \/ BusTaskRun

\* ------------------------------------------------- the WASM guest bridge
\* tests/wasm: the host (client) calls the guest's ns_malloc, its entry point
\* and ns_free through wasmtime.  The guest heap is the set of live
\* allocations with the address the next one gets; every call the host makes
\* into the guest is one step.

\* The kernel's contracts: ContractOne {name, age} and ContractTwo
\* {account_name, amount}, a String and a u32 each.
KernelContractOne(name, age) ==
    [variant |-> "ContractOne", inner |-> [name |-> name, age |-> age]]
KernelContractTwo(account_name, amount) ==
    [variant |-> "ContractTwo", inner |-> [account_name |-> account_name, amount |-> amount]]

KernelAmounts == {0, 42}

\* The handler's values the host may hold: a contract of either kind, or the
\* error variant, for which the guest exports no function.
KernelContracts ==
    {KernelContractOne(n, a) : n \in Names, a \in KernelAmounts}
        \cup {KernelContractTwo(n, a) : n \in Names, a \in KernelAmounts}
        \cup {ContractHandler("NanoServiceError", NanoServiceError_new(<<74>>, "BadRequest"))}

\* bincode::serialize of a kernel struct: its fields in declaration order.
kernel_serialize(variant, inner) ==
    IF variant = "ContractOne"
    THEN serialize_String(inner.name) \o serialize_u32(inner.age)
    ELSE serialize_String(inner.account_name) \o serialize_u32(inner.amount)

\* to_contract_bytes of the kernel's handler.
kernel_to_contract_bytes(self) ==
    IF self.variant = "NanoServiceError" THEN Ok(serialize_inner(self.variant, self.inner))
    ELSE Ok(kernel_serialize(self.variant, self.inner))

\* bincode::deserialize::<$contract>(bytes) of a kernel struct.
kernel_deserialize(variant, bytes) ==
    LET text == deserialize_String(bytes)
    IN  IF ~text.ok THEN text
        ELSE LET number == read_u32(text.rest)
             IN  IF ~number.ok THEN number
                 ELSE IF variant = "ContractOne"
                 THEN Read([name |-> text.val, age |-> LEVal(number.val)], number.rest)
                 ELSE Read([account_name |-> text.val, amount |-> LEVal(number.val)],
                           number.rest)

\* "Bob"
Bob == <<66, 111, 98>>

\* handle_contract_one and handle_contract_two of the wasi-server.
kernel_handle_contract(variant, contract) ==
    IF variant = "ContractOne" THEN Ok([contract EXCEPT !.name = Bob]) ELSE Ok(contract)

\* The contracts the guest binds in register_wasm_contract_routes!.
KernelBound == {"ContractOne", "ContractTwo"}

\* [<$contract:snake _contract>]: an underscore before every capital inside
\* the identifier.
entry_point_name_snake(contract) ==
    LET chars == stringify(contract)
        RECURSIVE Snake(_)
        Snake(i) ==
            IF i > Len(chars) THEN << >>
            ELSE (IF i > 1 /\ chars[i] \in 65..90 THEN <<95>> ELSE << >>)
                     \o to_lowercase(<<chars[i]>>) \o Snake(i + 1)
    IN  Snake(1) \o <<95, 99, 111, 110, 116, 114, 97, 99, 116>>

\* [<$contract:lower _contract>]: paste lowercases the identifier of the
\* contract and joins it with the identifier _contract.
entry_point_name(contract) ==
    [i \in 1..Len(stringify(contract)) |->
        IF stringify(contract)[i] \in 65..90 THEN stringify(contract)[i] + 32
        ELSE stringify(contract)[i]] \o <<95, 99, 111, 110, 116, 114, 97, 99, 116>>

\* The functions the guest exports for its contracts.
EntryPoints == {entry_point_name(v) : v \in KernelBound}
EntryContract(name) == CHOOSE v \in KernelBound : entry_point_name(v) = name

\* size_of::<ContractPointer>(): two i32.
ContractPointerSize == 4 + 4

EmptyHeap == [live |-> {}, brk |-> 1024]

\* align_of::<u8>(), the alignment of a Vec<u8>'s buffer, and
\* align_of::<ContractPointer>(), a #[repr(C)] struct of two i32.
AlignOfU8 == 1
AlignOfContractPointer == 4

\* alloc::alloc::alloc(layout): a block of the heap nothing else holds.
alloc(heap, size, align, what) ==
    [ptr  |-> heap.brk,
     heap |-> [live |-> heap.live \cup {[ptr |-> heap.brk, size |-> size,
                                         align |-> align, what |-> what]},
               brk  |-> heap.brk + size]]

\* alloc::alloc::dealloc(ptr, layout): the block goes back; a block that is
\* not live under that address and size is not one dealloc may be given.
dealloc(heap, ptr, size) ==
    [valid |-> \E b \in heap.live : b.ptr = ptr /\ b.size = size,
     heap  |-> [heap EXCEPT !.live = {b \in @ : b.ptr # ptr}]]

\* Layout::from_size_align_unchecked(size, alignment) with an alignment that is
\* not a power of two is undefined behaviour.  A build with the standard
\* library's precondition checks stops the guest there; a build without them
\* hands the layout to the allocator, which places the block by its size.
Builds == {"checked", "unchecked"}
Layout_from_size_align_unchecked(build, size, alignment) ==
    IF alignment \notin {1, 2, 4, 8} /\ build = "checked" THEN Err("trap")
    ELSE Ok([size |-> size, align |-> alignment])

\* ns_malloc(size, alignment)
ns_malloc(build, heap, size, alignment) ==
    LET layout == Layout_from_size_align_unchecked(build, size, alignment)
    IN  IF ~layout.ok THEN layout
        ELSE Ok(alloc(heap, layout.val.size, layout.val.align, "input"))

\* ns_free that gives nothing back.
ns_free_keeps(build, heap, ptr, size, alignment) ==
    LET layout == Layout_from_size_align_unchecked(build, size, alignment)
    IN  IF ~layout.ok THEN layout ELSE Ok([valid |-> TRUE, heap |-> heap])

\* ns_free(ptr, size, alignment)
ns_free(build, heap, ptr, size, alignment) ==
    LET layout == Layout_from_size_align_unchecked(build, size, alignment)
    IN  IF ~layout.ok THEN layout ELSE Ok(dealloc(heap, ptr, layout.val.size))

\* The guest's memory: the bytes written at an address.
MemoryRead(memory, ptr, len) ==
    IF ptr \in DOMAIN memory /\ Len(memory[ptr]) >= len
    THEN Ok(SubSeq(memory[ptr], 1, len)) ELSE Err("out of bounds")
MemoryWrite(memory, ptr, bytes) ==
    [p \in DOMAIN memory \cup {ptr} |-> IF p = ptr THEN bytes ELSE memory[p]]

\* The bytes of a ContractPointer {ptr: i32, len: i32} in the guest's memory.
ContractPointerBytes(ptr, len) == LEBytes(ptr, 4) \o LEBytes(len, 4)
ContractPointerFrom(bytes) ==
    [ptr |-> LEVal(SubSeq(bytes, 1, 4)), len |-> LEVal(SubSeq(bytes, 5, 8))]

\* An entry point that gives its input buffer back itself.
contract_entry_point_consumes_input(name, heap, memory, ptr, len) ==
    LET bytes == MemoryRead(memory, ptr, len)
        contract == kernel_deserialize(EntryContract(name), bytes.val)
        result == kernel_handle_contract(EntryContract(name), contract.val)
        serialized_data == kernel_serialize(EntryContract(name), result.val)
        out == alloc([heap EXCEPT !.live = {b \in @ : b.ptr # ptr}],
                     Len(serialized_data), AlignOfU8, "result")
        boxed == alloc(out.heap, ContractPointerSize, AlignOfContractPointer, "descriptor")
    IN  IF ~bytes.ok \/ ~contract.ok THEN Err("trap")
        ELSE Ok([ret    |-> boxed.ptr,
                 heap   |-> boxed.heap,
                 memory |-> MemoryWrite(
                                MemoryWrite(memory, out.ptr, serialized_data),
                                boxed.ptr,
                                ContractPointerBytes(out.ptr, Len(serialized_data)))])

\* [<$contract:lower _contract>](ptr, len): the contract is deserialized from
\* the slice and handled, the serialized result is leaked (a Vec of exactly
\* its length, as bincode sizes it) and its ContractPointer is boxed.
contract_entry_point(name, heap, memory, ptr, len) ==
    LET bytes == MemoryRead(memory, ptr, len)
    IN  IF ~bytes.ok THEN Err("trap")
        ELSE LET contract == kernel_deserialize(EntryContract(name), bytes.val)
             IN  IF ~contract.ok THEN Err("trap")
                 ELSE LET result == kernel_handle_contract(EntryContract(name), contract.val)
                          serialized_data == kernel_serialize(EntryContract(name), result.val)
                          out == alloc(heap, Len(serialized_data), AlignOfU8, "result")
                          boxed == alloc(out.heap, ContractPointerSize,
                                         AlignOfContractPointer, "descriptor")
                      IN  Ok([ret    |-> boxed.ptr,
                              heap   |-> boxed.heap,
                              memory |-> MemoryWrite(
                                             MemoryWrite(memory, out.ptr, serialized_data),
                                             boxed.ptr,
                                             ContractPointerBytes(out.ptr, Len(serialized_data)))])

\* ContractHandler::from_contract_bytes of the kernel's handler.
kernel_from_contract_bytes(bytes, string_ref) ==
    IF \E v \in {"ContractOne", "ContractTwo"} :
           string_ref = format_contract(v) /\ kernel_deserialize(v, bytes).ok
    THEN LET v == CHOOSE v \in {"ContractOne", "ContractTwo"} : string_ref = format_contract(v)
         IN  Ok([variant |-> v, inner |-> kernel_deserialize(v, bytes).val])
    ELSE Err(NanoServiceError_new(FailedToDeserializeMsg, "BadRequest"))

\* The three ns_free calls of the host, in order: the input buffer, the result
\* bytes, the descriptor.
HostFrees(host) ==
    <<[ptr |-> host.input_data_ptr, size |-> Len(host.serialized), alignment |-> 0],
      [ptr |-> host.result_struct.ptr, size |-> host.result_struct.len, alignment |-> 0],
      [ptr |-> host.ret, size |-> ContractPointerSize, alignment |-> 0]>>

BridgeInit ==
    /\ bridge_build \in Builds
    /\ bridge_heap = EmptyHeap
    /\ bridge_memory = << >>
    /\ \E contract \in KernelContracts :
           bridge_host = [pc         |-> "start",
                          contract   |-> contract,
                          name_ref   |-> to_string_ref(contract),
                          serialized |-> kernel_to_contract_bytes(contract).val]
    /\ bridge_allocs = << >>
    /\ bridge_frees = << >>

BridgeIdle ==
    /\ bridge_build = "unchecked"
    /\ bridge_heap = EmptyHeap
    /\ bridge_memory = << >>
    /\ bridge_host = [pc |-> "idle"]
    /\ bridge_allocs = << >>
    /\ bridge_frees = << >>

\* The allocations a guest call added to the heap, oldest first.
NewBlocks(before, after) ==
    LET new == after.live \ before.live
        RECURSIVE Ordered(_)
        Ordered(bs) ==
            IF bs = {} THEN << >>
            ELSE LET b == CHOOSE x \in bs : \A y \in bs : x.ptr <= y.ptr
                 IN  <<b>> \o Ordered(bs \ {b})
    IN  Ordered(new)

\* malloc.call_async(serialized.len(), 0).unwrap()
BridgeMalloc ==
    /\ bridge_host.pc = "start"
    /\ \E r \in {ns_malloc(bridge_build, bridge_heap, Len(bridge_host.serialized), 0)} :
           IF r.ok
           THEN /\ bridge_heap' = r.val.heap
                /\ bridge_allocs' = bridge_allocs \o NewBlocks(bridge_heap, r.val.heap)
                /\ bridge_host' = [pc |-> "allocated", input_data_ptr |-> r.val.ptr]
                                      @@ bridge_host
           ELSE /\ bridge_host' = [pc |-> "panicked"] @@ bridge_host
                /\ UNCHANGED <<bridge_heap, bridge_allocs>>
    /\ UNCHANGED <<bridge_build, bridge_memory, bridge_frees>>
    /\ UNCHANGED not_bridge

\* memory.write(input_data_ptr, &serialized).unwrap()
BridgeWrite ==
    /\ bridge_host.pc = "allocated"
    /\ bridge_memory' = MemoryWrite(bridge_memory, bridge_host.input_data_ptr,
                                    bridge_host.serialized)
    /\ bridge_host' = [bridge_host EXCEPT !.pc = "written"]
    /\ UNCHANGED <<bridge_build, bridge_heap, bridge_allocs, bridge_frees>>
    /\ UNCHANGED not_bridge

\* get_typed_func(&name_ref).unwrap() and entry_point.call_async(input_data_ptr,
\* serialized.len()).unwrap()
BridgeEntryPoint ==
    /\ bridge_host.pc = "written"
    /\ IF bridge_host.name_ref \notin EntryPoints
       THEN /\ bridge_host' = [bridge_host EXCEPT !.pc = "panicked"]
            /\ UNCHANGED <<bridge_heap, bridge_memory, bridge_allocs>>
       ELSE \E r \in {contract_entry_point(bridge_host.name_ref, bridge_heap, bridge_memory,
                                           bridge_host.input_data_ptr,
                                           Len(bridge_host.serialized))} :
                IF r.ok
                THEN /\ bridge_heap' = r.val.heap
                     /\ bridge_memory' = r.val.memory
                     /\ bridge_allocs' = bridge_allocs \o NewBlocks(bridge_heap, r.val.heap)
                     /\ bridge_host' = [pc |-> "returned", ret |-> r.val.ret] @@ bridge_host
                ELSE /\ bridge_host' = [bridge_host EXCEPT !.pc = "panicked"]
                     /\ UNCHANGED <<bridge_heap, bridge_memory, bridge_allocs>>
    /\ UNCHANGED <<bridge_build, bridge_frees>>
    /\ UNCHANGED not_bridge

\* The two memory.read calls (the ContractPointer at ret, then the bytes it
\* points at) and from_contract_bytes(&output_contract_buffer, name_ref).unwrap()
BridgeRead ==
    /\ bridge_host.pc = "returned"
    /\ \E d \in {MemoryRead(bridge_memory, bridge_host.ret, ContractPointerSize)} :
           IF ~d.ok
           THEN bridge_host' = [bridge_host EXCEPT !.pc = "panicked"]
           ELSE \E result_struct \in {ContractPointerFrom(d.val)} :
                \E out \in {MemoryRead(bridge_memory, result_struct.ptr, result_struct.len)} :
                    IF ~out.ok \/ ~kernel_from_contract_bytes(out.val, bridge_host.name_ref).ok
                    THEN bridge_host' = [bridge_host EXCEPT !.pc = "panicked"]
                    ELSE bridge_host' =
                             [pc            |-> "read",
                              result_struct |-> result_struct,
                              output        |-> kernel_from_contract_bytes(
                                                    out.val, bridge_host.name_ref).val,
                              freed         |-> 0] @@ bridge_host
    /\ UNCHANGED <<bridge_build, bridge_heap, bridge_memory, bridge_allocs, bridge_frees>>
    /\ UNCHANGED not_bridge

\* free.call_async(ptr, size, 0).unwrap(): the next of the host's three calls.
\* Each call is recorded with the block it gave back.
BridgeFree ==
    /\ bridge_host.pc = "read"
    /\ \E call \in {HostFrees(bridge_host)[bridge_host.freed + 1]} :
       \E r \in {ns_free(bridge_build, bridge_heap, call.ptr, call.size, call.alignment)} :
           IF r.ok
           THEN /\ bridge_heap' = r.val.heap
                /\ bridge_frees' = Append(bridge_frees,
                                          [ptr |-> call.ptr, size |-> call.size,
                                           alignment |-> call.alignment,
                                           valid |-> r.val.valid,
                                           gone  |-> bridge_heap.live \ r.val.heap.live])
                /\ bridge_host' =
                       [bridge_host EXCEPT
                           !.freed = @ + 1,
                           !.pc = IF bridge_host.freed + 1 = Len(HostFrees(bridge_host))
                                  THEN "done" ELSE "read"]
           ELSE /\ bridge_host' = [bridge_host EXCEPT !.pc = "panicked"]
                /\ UNCHANGED <<bridge_heap, bridge_frees>>
    /\ UNCHANGED <<bridge_build, bridge_memory, bridge_allocs>>
    /\ UNCHANGED not_bridge

BridgeNext ==
    \/ BridgeMalloc
    \/ BridgeWrite
    \/ BridgeEntryPoint
    \/ BridgeRead
    \/ BridgeFree

\* ------------------------------------------- the proxy's pipe to the guest
\* TcpToWasmProxy::start forwards every contract it receives to the child
\* process over the child's standard input and reads the answer from its
\* standard output; the child runs the main that register_contract_routes!
\* generates.  Both sides frame a message as a 4-byte type, the bincode bytes
\* and a newline.  The handler type is the kernel's ContractHandler.

KernelVariants == <<"ContractOne", "ContractTwo", "NanoServiceError">>

\* bincode::serialize of the kernel's ContractHandler.
kernel_bincode_serialize(e) ==
    serialize_u32(IndexOf(KernelVariants, e.variant) - 1)
        \o kernel_to_contract_bytes(e).val

\* bincode::deserialize of the kernel's ContractHandler: bytes after the value
\* are left alone.
kernel_bincode_deserialize(bs) ==
    LET variant == deserialize_variant(bs, KernelVariants)
    IN  IF ~variant.ok THEN Err(variant.err)
        ELSE LET inner == IF variant.val = "NanoServiceError"
                          THEN deserialize_NanoServiceError(variant.rest)
                          ELSE kernel_deserialize(variant.val, variant.rest)
             IN  IF ~inner.ok THEN Err(inner.err)
                 ELSE Ok(ContractHandler(variant.val, inner.val))

\* The numbers the contracts forwarded carry: one with the newline byte, one
\* with a byte that is not UTF-8, one whose last byte is a space.
PipeAmounts == {0, 42, 10, 255, 536870912}

\* The contracts a connection hands the proxy.
PipeEnvelopes ==
    {KernelContractOne(<<74>>, a) : a \in PipeAmounts}
        \cup {KernelContractTwo(<<74>>, a) : a \in PipeAmounts}
        \cup {ContractHandler("NanoServiceError", NanoServiceError_new(<<74>>, "BadRequest"))}

Newline == 10

\* to_be_bytes with the low byte first.
to_be_bytes_low_first(n) == LEBytes(n, 4)

\* message_type.to_be_bytes()
to_be_bytes(n) == [i \in 1..4 |-> LEBytes(n, 4)[5 - i]]

\* u32::from_be_bytes([b0, b1, b2, b3]) of a type no larger than the model's
\* integers; any other type is not 1.
from_be_bytes(bs) ==
    IF bs[1] < 128 THEN LEVal([i \in 1..4 |-> bs[5 - i]]) ELSE 0 - 1

\* encoded_message: the type bytes, then the bincode bytes.
encoded_message(message_type, data) ==
    to_be_bytes(message_type) \o kernel_bincode_serialize(data)

\* output.split_at(4) panics on fewer than 4 bytes.
split_at(bs, mid) ==
    IF mid > Len(bs) THEN Err("panic")
    ELSE Ok([prefix |-> SubSeq(bs, 1, mid), data |-> Drop(bs, mid)])

\* The bytes up to and including the first newline, or all of them.
UpToNewline(bs) ==
    IF \E i \in 1..Len(bs) : bs[i] = Newline
    THEN SubSeq(bs, 1, CHOOSE i \in 1..Len(bs) :
                           bs[i] = Newline /\ \A j \in 1..(i - 1) : bs[j] # Newline)
    ELSE bs

\* A pipe: the bytes in it, and whether its other end is gone.
EmptyPipe == [bytes |-> << >>, closed |-> FALSE]

\* reader.read_until(b'\n', &mut output): waits for a newline or the end of
\* the stream, and takes the bytes up to there, the newline included.
read_until(pipe) ==
    IF ~pipe.closed /\ \A i \in 1..Len(pipe.bytes) : pipe.bytes[i] # Newline THEN Pending
    ELSE [output |-> UpToNewline(pipe.bytes),
          pipe   |-> [pipe EXCEPT !.bytes = Drop(@, Len(UpToNewline(pipe.bytes)))]]

\* reader.read_line(&mut line): read_until into a String, an error where the
\* bytes read are not UTF-8 (the line keeps what it had).
read_line(pipe, line) ==
    LET r == read_until(pipe)
    IN  IF r = Pending THEN Pending
        ELSE IF ~Utf8Valid(r.output) THEN [result |-> Err("InvalidData"), line |-> line,
                                           pipe |-> r.pipe]
        ELSE [result |-> Ok(Len(r.output)), line |-> line \o r.output, pipe |-> r.pipe]

\* char::is_whitespace of the characters one byte long.
IsWhitespace(b) == b \in {9, 10, 11, 12, 13, 32}

RECURSIVE trim_start(_)
trim_start(s) == IF s # << >> /\ IsWhitespace(Head(s)) THEN trim_start(Tail(s)) ELSE s

RECURSIVE trim_end(_)
trim_end(s) ==
    IF s # << >> /\ IsWhitespace(s[Len(s)]) THEN trim_end(SubSeq(s, 1, Len(s) - 1)) ELSE s

\* line.trim(): whitespace goes from both ends (the characters of more than
\* one byte that are whitespace do not occur in the bytes modelled).
trim(s) == trim_end(trim_start(s))

\* handle_contract_routes of the wasi-server: the contract's handler on its
\* inner value, an error for any other variant.
handle_contract_routes(msg) ==
    IF msg.variant \in {"ContractOne", "ContractTwo"}
    THEN Ok(ContractHandler(msg.variant,
                            kernel_handle_contract(msg.variant,
                                                   msg.inner).val))
    ELSE Err(NanoServiceError_new(UnknownContractMsg, "ContractNotSupported"))

\* "Received unknown request type" and println!'s newline.
UnknownRequestTypeLine ==
    <<82, 101, 99, 101, 105, 118, 101, 100, 32, 117, 110, 107, 110, 111, 119, 110, 32,
      114, 101, 113, 117, 101, 115, 116, 32, 116, 121, 112, 101, 10>>

\* What one request leaves behind: the contract the proxy forwarded, the bytes
\* it wrote for it, and what each side made of the other's line.
PipeEntry(data) ==
    [data |-> data, written |-> << >>, flushed |-> FALSE, read |-> FALSE,
     guest_request |-> None, guest_response |-> None, host_response |-> None]

PipeInit ==
    /\ pipe_host = [pc |-> "next"]
    /\ pipe_guest = [pc |-> "running", line |-> << >>]
    /\ pipe_stdin = EmptyPipe
    /\ pipe_stdout = EmptyPipe
    /\ pipe_log = << >>

PipeIdle ==
    /\ pipe_host = [pc |-> "idle"]
    /\ pipe_guest = [pc |-> "idle", line |-> << >>]
    /\ pipe_stdin = EmptyPipe
    /\ pipe_stdout = EmptyPipe
    /\ pipe_log = << >>

PipeCurrent == Len(pipe_log)

\* stdin.write_all(bytes).unwrap(): the bytes go into the pipe, or the write
\* fails on a pipe whose reader is gone and the proxy panics.
PipeHostWrite(bytes, pc) ==
    IF pipe_stdin.closed
    THEN /\ pipe_host' = [pipe_host EXCEPT !.pc = "panicked"]
         /\ UNCHANGED <<pipe_stdin, pipe_log>>
    ELSE /\ pipe_stdin' = [pipe_stdin EXCEPT !.bytes = @ \o bytes]
         /\ pipe_log' = [pipe_log EXCEPT ![PipeCurrent].written = @ \o bytes]
         /\ pipe_host' = [pipe_host EXCEPT !.pc = pc]

\* accept, framed.next() giving Ok(data), and the message packed with its type.
PipeAccept ==
    /\ pipe_host.pc = "next"
    /\ Len(pipe_log) < MaxCalls
    /\ \E data \in PipeEnvelopes :
        /\ pipe_host' = [pc |-> "write_message", data |-> data,
                         encoded_message |-> encoded_message(1, data)]
        /\ pipe_log' = Append(pipe_log, PipeEntry(data))
    /\ UNCHANGED <<pipe_guest, pipe_stdin, pipe_stdout>>
    /\ UNCHANGED not_pipe

\* stdin.write_all(&encoded_message).unwrap()
PipeWriteMessage ==
    /\ pipe_host.pc = "write_message"
    /\ PipeHostWrite(pipe_host.encoded_message, "write_newline")
    /\ UNCHANGED <<pipe_guest, pipe_stdout>>
    /\ UNCHANGED not_pipe

\* stdin.write_all(b"\n").unwrap()
PipeWriteNewline ==
    /\ pipe_host.pc = "write_newline"
    /\ PipeHostWrite(<<Newline>>, "flush")
    /\ UNCHANGED <<pipe_guest, pipe_stdout>>
    /\ UNCHANGED not_pipe

\* stdin.flush().unwrap(): ChildStdin holds nothing back, so nothing moves.
PipeFlush ==
    /\ pipe_host.pc = "flush"
    /\ pipe_log' = [pipe_log EXCEPT ![PipeCurrent].flushed = TRUE]
    /\ pipe_host' = [pipe_host EXCEPT !.pc = "read_until"]
    /\ UNCHANGED <<pipe_guest, pipe_stdin, pipe_stdout>>
    /\ UNCHANGED not_pipe

\* A proxy that goes on to the next request without reading the answer.
PipeReadUntil_not_awaited ==
    /\ pipe_host.pc = "read_until"
    /\ pipe_host' = [pipe_host EXCEPT !.pc = "next"]
    /\ UNCHANGED <<pipe_guest, pipe_stdin, pipe_stdout, pipe_log>>
    /\ UNCHANGED not_pipe

\* reader.read_until(b'\n', &mut output).unwrap(), output.split_at(4),
\* bincode::deserialize(&message_data).unwrap(), framed.send(response), break.
PipeReadUntil ==
    /\ pipe_host.pc = "read_until"
    /\ \E r \in {read_until(pipe_stdout)} :
        /\ r # Pending
        /\ pipe_stdout' = r.pipe
        /\ \E parts \in {split_at(r.output, 4)} :
           \E response \in {IF parts.ok THEN kernel_bincode_deserialize(parts.val.data)
                            ELSE parts} :
            /\ pipe_log' = [pipe_log EXCEPT ![PipeCurrent].read = TRUE,
                                            ![PipeCurrent].host_response = Some(response)]
            /\ pipe_host' = [pipe_host EXCEPT !.pc = IF response.ok THEN "next" ELSE "panicked"]
    /\ UNCHANGED <<pipe_guest, pipe_stdin>>
    /\ UNCHANGED not_pipe

\* The guest's answer to a line of type 1: the request deserialized and
\* handled (either unwrap may panic), the response packed like the request.
GuestAnswer(message_data) ==
    LET request == kernel_bincode_deserialize(message_data)
    IN  IF ~request.ok THEN [request |-> request, response |-> None]
        ELSE [request  |-> request,
              response |-> Some(handle_contract_routes(request.val))]

\* One turn of the guest's `while reader.read_line(&mut line)? != 0`.
PipeGuestServe ==
    /\ pipe_guest.pc = "running"
    /\ Len(pipe_log) > 0
    /\ \E r \in {read_line(pipe_stdin, pipe_guest.line)} :
        /\ r # Pending
        /\ IF ~r.result.ok
           THEN /\ pipe_guest' = [pc |-> "exited", line |-> r.line]
                /\ pipe_stdin' = [r.pipe EXCEPT !.closed = TRUE]
                /\ pipe_stdout' = [pipe_stdout EXCEPT !.closed = TRUE]
                /\ pipe_log' = [pipe_log EXCEPT ![PipeCurrent].guest_request = Some(r.result)]
           ELSE \E parts \in {split_at(trim(r.line), 4)} :
                IF ~parts.ok
                THEN /\ pipe_guest' = [pc |-> "panicked", line |-> r.line]
                     /\ pipe_stdin' = [r.pipe EXCEPT !.closed = TRUE]
                     /\ pipe_stdout' = [pipe_stdout EXCEPT !.closed = TRUE]
                     /\ pipe_log' = [pipe_log EXCEPT ![PipeCurrent].guest_request = Some(parts)]
                ELSE IF from_be_bytes(parts.val.prefix) # 1
                THEN /\ pipe_guest' = [pc |-> "running", line |-> r.line]
                     /\ pipe_stdin' = r.pipe
                     /\ pipe_stdout' = [pipe_stdout EXCEPT !.bytes = @ \o UnknownRequestTypeLine]
                     /\ UNCHANGED pipe_log
                ELSE \E a \in {GuestAnswer(parts.val.data)} :
                     IF a.response = None \/ ~a.response.some.ok
                     THEN /\ pipe_guest' = [pc |-> "panicked", line |-> r.line]
                          /\ pipe_stdin' = [r.pipe EXCEPT !.closed = TRUE]
                          /\ pipe_stdout' = [pipe_stdout EXCEPT !.closed = TRUE]
                          /\ pipe_log' = [pipe_log EXCEPT
                                             ![PipeCurrent].guest_request = Some(a.request)]
                     ELSE /\ pipe_guest' = [pc |-> "running", line |-> << >>]
                          /\ pipe_stdin' = r.pipe
                          /\ pipe_stdout' =
                                 [pipe_stdout EXCEPT
                                     !.bytes = @ \o encoded_message(1, a.response.some.val)
                                                 \o <<Newline>>]
                          /\ pipe_log' = [pipe_log EXCEPT
                                             ![PipeCurrent].guest_request = Some(a.request),
                                             ![PipeCurrent].guest_response =
                                                 Some(a.response.some.val)]
    /\ UNCHANGED pipe_host
    /\ UNCHANGED not_pipe

PipeNext ==
    \/ PipeAccept
    \/ PipeWriteMessage
    \/ PipeWriteNewline
    \/ PipeFlush
    \/ PipeReadUntil
    \/ PipeGuestServe

\* ----------------------------------------------- the servers' accept loop
\* tcp_server (and TcpToWasmProxy::start, whose loops have the same shape):
\* `while let Ok((socket, _)) = listener.accept().await`, and inside it the
\* connection's `while let Some(result) = framed.next().await`.  Clients
\* connect, send their frame in parts whenever they like, and may give up;
\* a connection the kernel has established waits in the listener's backlog
\* until the server accepts it.

Connections == {1, 2}

\* The contracts the clients send: one with a handler bound, one without.
ListenerRequests ==
    {ContractHandler("ContractTwo", ContractTwo),
     ContractHandler("ContractThree", ContractThree)}

\* A connection: the client's side (its request, how far it has sent it, and
\* whether it is connected or has closed), the bytes in the socket towards
\* the server, and the server's side (accepted, answered, dropped).
NewConnection(request) ==
    [request  |-> request,
     frame    |-> BincodeCodec_encode(request, << >>),
     status   |-> "new",
     sent     |-> 0,
     socket   |-> << >>,
     accepted |-> FALSE,
     response |-> None,
     dropped  |-> FALSE]

ListenerInit ==
    /\ listener_conns \in [Connections -> {NewConnection(r) : r \in ListenerRequests}]
    /\ listener_backlog = << >>
    /\ listener_server = [pc |-> "accept"]

ListenerIdle ==
    /\ listener_conns = << >>
    /\ listener_backlog = << >>
    /\ listener_server = [pc |-> "idle"]

\* TcpStream::connect on the client
ConnConnect(c) ==
    /\ listener_conns[c].status = "new"
    /\ listener_conns' = [listener_conns EXCEPT ![c].status = "connected"]
    /\ listener_backlog' = Append(listener_backlog, c)
    /\ UNCHANGED listener_server
    /\ UNCHANGED not_listener

\* The client's next bytes reach the server's socket: any part of what is
\* left of the frame.
ConnSend(c) ==
    /\ listener_conns[c].status = "connected"
    /\ listener_conns[c].sent < Len(listener_conns[c].frame)
    /\ \E k \in 1..(Len(listener_conns[c].frame) - listener_conns[c].sent) :
        listener_conns' =
            [listener_conns EXCEPT
                ![c].sent = @ + k,
                ![c].socket = @ \o SubSeq(listener_conns[c].frame,
                                          listener_conns[c].sent + 1,
                                          listener_conns[c].sent + k)]
    /\ UNCHANGED <<listener_backlog, listener_server>>
    /\ UNCHANGED not_listener

\* The client closes a connection it has no answer on.
ConnClose(c) ==
    /\ listener_conns[c].status = "connected"
    /\ listener_conns[c].response = None
    /\ listener_conns' = [listener_conns EXCEPT ![c].status = "closed"]
    /\ UNCHANGED <<listener_backlog, listener_server>>
    /\ UNCHANGED not_listener

\* listener.accept().await and Framed::new(socket, BincodeCodec::new())
ListenerAccept ==
    /\ listener_server.pc = "accept"
    /\ listener_backlog # << >>
    /\ listener_server' = [pc |-> "next", conn |-> Head(listener_backlog), buf |-> << >>]
    /\ listener_backlog' = Tail(listener_backlog)
    /\ listener_conns' = [listener_conns EXCEPT ![Head(listener_backlog)].accepted = TRUE]
    /\ UNCHANGED not_listener

\* A server whose accept loop ends with the connection that failed.
ListenerFramedNext_ends_server ==
    /\ listener_server.pc = "next"
    /\ \E c \in {listener_server.conn} :
        /\ listener_conns[c].socket # << >> \/ listener_conns[c].status = "closed"
        /\ \E k \in (IF listener_conns[c].socket = << >> THEN {0}
                     ELSE 1..Len(listener_conns[c].socket)) :
           \E decoded \in {BincodeCodec_decode(
                              listener_server.buf \o SubSeq(listener_conns[c].socket, 1, k))} :
           \E p \in {Framed_poll_next(decoded, k = 0)} :
               IF ~p.ready
               THEN /\ listener_server' = [listener_server EXCEPT !.buf = decoded.src]
                    /\ listener_conns' = [listener_conns EXCEPT ![c].socket = Drop(@, k)]
               ELSE IF p.item # None /\ p.item.some.ok
               THEN /\ listener_server' = [pc |-> "handle", conn |-> c, buf |-> decoded.src,
                                           data |-> p.item.some.val]
                    /\ listener_conns' = [listener_conns EXCEPT ![c].socket = Drop(@, k)]
               ELSE /\ listener_server' = [pc |-> "returned"]
                    /\ listener_conns' = [listener_conns EXCEPT ![c].socket = Drop(@, k),
                                                                ![c].dropped = TRUE]
    /\ UNCHANGED listener_backlog
    /\ UNCHANGED not_listener

\* framed.next().await on the accepted connection: it waits for bytes or the
\* end of the stream; Ok(data) goes on to the handler, an Err or the end of
\* the stream ends the inner loop and drops the socket.
ListenerFramedNext ==
    /\ listener_server.pc = "next"
    /\ \E c \in {listener_server.conn} :
        /\ listener_conns[c].socket # << >> \/ listener_conns[c].status = "closed"
        /\ \E k \in (IF listener_conns[c].socket = << >> THEN {0}
                     ELSE 1..Len(listener_conns[c].socket)) :
           \E decoded \in {BincodeCodec_decode(
                              listener_server.buf \o SubSeq(listener_conns[c].socket, 1, k))} :
           \E p \in {Framed_poll_next(decoded, k = 0)} :
               IF ~p.ready
               THEN /\ listener_server' = [listener_server EXCEPT !.buf = decoded.src]
                    /\ listener_conns' = [listener_conns EXCEPT ![c].socket = Drop(@, k)]
               ELSE IF p.item # None /\ p.item.some.ok
               THEN /\ listener_server' = [pc |-> "handle", conn |-> c, buf |-> decoded.src,
                                           data |-> p.item.some.val]
                    /\ listener_conns' = [listener_conns EXCEPT ![c].socket = Drop(@, k)]
               ELSE /\ listener_server' = [pc |-> "accept"]
                    /\ listener_conns' = [listener_conns EXCEPT ![c].socket = Drop(@, k),
                                                                ![c].dropped = TRUE]
    /\ UNCHANGED listener_backlog
    /\ UNCHANGED not_listener

\* handle_contract(data).await, framed.send(response).await.unwrap(), break
ListenerHandle ==
    /\ listener_server.pc = "handle"
    /\ \E outcome \in TcpHandlerOutcomes(listener_server.data, FALSE) :
       \E response \in {server_response("client",
                            handle_contract(listener_server.data, TcpBound, outcome))} :
        /\ listener_conns' =
               [listener_conns EXCEPT
                   ![listener_server.conn].response =
                       Some(BincodeCodec_encode(response.some, << >>)),
                   ![listener_server.conn].dropped = TRUE]
        /\ listener_server' = [pc |-> "accept"]
    /\ UNCHANGED listener_backlog
    /\ UNCHANGED not_listener

ListenerNext ==
    \/ \E c \in Connections : ConnConnect(c)
    \/ \E c \in Connections : ConnSend(c)
    \/ \E c \in Connections : ConnClose(c)
    \/ ListenerAccept
    \/ ListenerFramedNext
    \/ ListenerHandle

\* The server's tasks run whenever they can; a client is free to stall.
ListenerFairness ==
    /\ WF_vars(ListenerAccept)
    /\ WF_vars(ListenerFramedNext)
    /\ WF_vars(ListenerHandle)

\* ------------------------------------------ one send_data_contract_over_tcp
\* The call against a peer that may refuse the connection, answer in parts,
\* and close at any moment.  The call counts its connects and sends.

\* The frames a peer answers with.
CallResponses ==
    {ContractHandler("ContractTwo", ContractTwo),
     ContractHandler("ContractOne", ContractOne(<<74>>, 32))}

\* e.to_string() of the io::Error of a failed connect or send: the text is the
\* operating system's; "os error" stands for it.
OsErrorMsg == <<111, 115, 32, 101, 114, 114, 111, 114>>

\* .map_err(|e| NanoServiceError::new(e.to_string(), BadRequest)) on connect
\* and on send.
map_err_BadRequest(ok) ==
    IF ok THEN Ok("unit") ELSE Err(NanoServiceError_new(OsErrorMsg, "BadRequest"))

CallInit ==
    /\ call_request \in TcpRequests
    /\ call_pc = "connect"
    /\ \E response \in CallResponses :
           call_peer = [listening |-> TRUE, closed |-> FALSE, written |-> 0,
                        frame |-> BincodeCodec_encode(response, << >>)]
    /\ call_socket = << >>
    /\ call_buf = << >>
    /\ call_log = [connects |-> 0, sends |-> 0, sent |-> << >>]
    /\ call_result = None

CallIdle ==
    /\ call_request = None
    /\ call_pc = "idle"
    /\ call_peer = [listening |-> FALSE, closed |-> TRUE, written |-> 0, frame |-> << >>]
    /\ call_socket = << >>
    /\ call_buf = << >>
    /\ call_log = [connects |-> 0, sends |-> 0, sent |-> << >>]
    /\ call_result = None

\* The peer stops listening before the call connects.
PeerStops ==
    /\ call_pc = "connect"
    /\ call_peer.listening
    /\ call_peer' = [call_peer EXCEPT !.listening = FALSE, !.closed = TRUE]
    /\ UNCHANGED <<call_request, call_pc, call_socket, call_buf, call_log, call_result>>
    /\ UNCHANGED not_call

\* TcpStream::connect(address).await.map_err(..)?
CallConnect ==
    /\ call_pc = "connect"
    /\ call_log' = [call_log EXCEPT !.connects = @ + 1]
    /\ \E r \in {map_err_BadRequest(call_peer.listening)} :
           IF r.ok
           THEN call_pc' = "send" /\ UNCHANGED call_result
           ELSE call_pc' = "done" /\ call_result' = r
    /\ UNCHANGED <<call_request, call_peer, call_socket, call_buf>>
    /\ UNCHANGED not_call

\* framed.send(contract).await.map_err(..)?: the write fails or not on a
\* connection the peer has closed, as the reset reaches the client in time or
\* does not.
CallSend ==
    /\ call_pc = "send"
    /\ \E delivered \in (IF call_peer.closed THEN BOOLEAN ELSE {TRUE}) :
       \E r \in {map_err_BadRequest(delivered)} :
        /\ call_log' = [call_log EXCEPT
                           !.sends = @ + 1,
                           !.sent = IF r.ok THEN BincodeCodec_encode(call_request, << >>)
                                    ELSE @]
        /\ IF r.ok
           THEN call_pc' = "next" /\ UNCHANGED call_result
           ELSE call_pc' = "done" /\ call_result' = r
    /\ UNCHANGED <<call_request, call_peer, call_socket, call_buf>>
    /\ UNCHANGED not_call

\* The peer writes the next part of its answer to a request it was sent.
PeerWrites ==
    /\ call_log.sent # << >>
    /\ ~call_peer.closed
    /\ call_peer.written < Len(call_peer.frame)
    /\ \E k \in 1..(Len(call_peer.frame) - call_peer.written) :
        /\ call_peer' = [call_peer EXCEPT !.written = @ + k]
        /\ call_socket' = call_socket \o SubSeq(call_peer.frame, call_peer.written + 1,
                                                call_peer.written + k)
    /\ UNCHANGED <<call_request, call_pc, call_buf, call_log, call_result>>
    /\ UNCHANGED not_call

\* The peer closes the connection.
PeerCloses ==
    /\ call_pc # "connect"
    /\ ~call_peer.closed
    /\ call_peer' = [call_peer EXCEPT !.closed = TRUE]
    /\ UNCHANGED <<call_request, call_pc, call_socket, call_buf, call_log, call_result>>
    /\ UNCHANGED not_call

\* framed.next().await and the return: it waits for bytes or the end of the
\* stream; None is "No response from server.", Some(Err) is mapped to a
\* BadRequest error, Some(Ok) is returned.
CallFramedNext ==
    /\ call_pc = "next"
    /\ call_socket # << >> \/ call_peer.closed
    /\ \E k \in (IF call_socket = << >> THEN {0} ELSE 1..Len(call_socket)) :
       \E decoded \in {BincodeCodec_decode(call_buf \o SubSeq(call_socket, 1, k))} :
       \E p \in {Framed_poll_next(decoded, k = 0)} :
        /\ call_socket' = Drop(call_socket, k)
        /\ call_buf' = decoded.src
        /\ IF ~p.ready
           THEN UNCHANGED <<call_pc, call_result>>
           ELSE /\ call_result' = send_data_contract_over_tcp(p.item)
                /\ call_pc' = "done"
    /\ UNCHANGED <<call_request, call_peer, call_log>>
    /\ UNCHANGED not_call

CallNext ==
    \/ PeerStops
    \/ CallConnect
    \/ CallSend
    \/ PeerWrites
    \/ PeerCloses
    \/ CallFramedNext

\* ------------------------------------------------- the registry's RwLock
\* HASHMAP is an RwLock: HASHMAP.read() waits while a writer holds the lock,
\* HASHMAP.write() waits while anyone holds it, and a guard gives the lock
\* back when it is dropped.  Threads call publish_event and
\* insert_into_hashmap; taking the lock and giving it back are steps of their
\* own.  A function publish_event invokes may itself register a subscriber.

NoThread == [pc |-> "idle", name |-> "", func |-> "", buffer |-> << >>, resume |-> None]

\* The read guard of get_from_hashmap kept by the caller.
drop_read_guard_kept(readers, t) == readers

\* HASHMAP.read().unwrap().get(name).cloned(): the guard is a temporary of
\* the expression and is dropped when get_from_hashmap returns.
drop_read_guard(readers, t) == readers \ {t}

LockInit ==
    /\ lock_rw = [readers |-> {}, writer |-> None]
    /\ lock_map = [n \in EventNames |-> None]
    /\ lock_threads = [t \in Threads |-> NoThread]
    /\ lock_calls = 0
    /\ lock_spawned = << >>

LockIdle ==
    /\ lock_rw = [readers |-> {}, writer |-> None]
    /\ lock_map = << >>
    /\ lock_threads = << >>
    /\ lock_calls = 0
    /\ lock_spawned = << >>

\* publish_event(name, data) is called: get_from_hashmap(name) asks for the
\* read lock.
LockPublishCall(t) ==
    /\ lock_calls < MaxCalls
    /\ lock_threads[t].pc = "idle"
    /\ \E name \in EventNames :
           lock_threads' = [lock_threads EXCEPT ![t] =
                               [NoThread EXCEPT !.pc = "publish_read", !.name = name]]
    /\ lock_calls' = lock_calls + 1
    /\ UNCHANGED <<lock_rw, lock_map, lock_spawned>>
    /\ UNCHANGED not_lock

\* insert_into_hashmap(name, func) is called: get_from_hashmap(&name) asks for
\* the read lock.
LockInsertCall(t) ==
    /\ lock_calls < MaxCalls
    /\ lock_threads[t].pc = "idle"
    /\ \E name \in EventNames : \E func \in EventFunctions :
           lock_threads' = [lock_threads EXCEPT ![t] =
                               [NoThread EXCEPT !.pc = "insert_read", !.name = name,
                                                !.func = func]]
    /\ lock_calls' = lock_calls + 1
    /\ UNCHANGED <<lock_rw, lock_map, lock_spawned>>
    /\ UNCHANGED not_lock

\* HASHMAP.read().unwrap(): granted while no writer holds the lock.
LockRead(t) ==
    /\ lock_threads[t].pc \in {"publish_read", "insert_read"}
    /\ lock_rw.writer = None
    /\ lock_rw' = [lock_rw EXCEPT !.readers = @ \cup {t}]
    /\ lock_threads' = [lock_threads EXCEPT ![t].pc =
                           IF @ = "publish_read" THEN "publish_copy" ELSE "insert_copy"]
    /\ UNCHANGED <<lock_map, lock_calls, lock_spawned>>
    /\ UNCHANGED not_lock

\* .get(name).cloned() under the guard and the return of get_from_hashmap;
\* publish_event returns when there is no buffer, insert_into_hashmap pushes
\* func onto its copy.
LockCopy(t) ==
    /\ lock_threads[t].pc \in {"publish_copy", "insert_copy"}
    /\ lock_rw' = [lock_rw EXCEPT !.readers = drop_read_guard(@, t)]
    /\ \E buffer \in {get_from_hashmap(lock_map, lock_threads[t].name)} :
           lock_threads' =
               [lock_threads EXCEPT ![t] =
                   IF lock_threads[t].pc = "insert_copy"
                   THEN [@ EXCEPT !.pc = "insert_write",
                                  !.buffer = Append(unwrap_or_else(buffer, << >>),
                                                     lock_threads[t].func)]
                   ELSE IF buffer = None THEN NoThread
                   ELSE [@ EXCEPT !.pc = "schedule", !.buffer = buffer.some]]
    /\ UNCHANGED <<lock_map, lock_calls, lock_spawned>>
    /\ UNCHANGED not_lock

\* HASHMAP.write().unwrap(): granted while nobody holds the lock.
LockWrite(t) ==
    /\ lock_threads[t].pc = "insert_write"
    /\ lock_rw = [readers |-> {}, writer |-> None]
    /\ lock_rw' = [lock_rw EXCEPT !.writer = Some(t)]
    /\ lock_threads' = [lock_threads EXCEPT ![t].pc = "insert_insert"]
    /\ UNCHANGED <<lock_map, lock_calls, lock_spawned>>
    /\ UNCHANGED not_lock

\* map.insert(name, buffer) and the return of insert_into_hashmap, which
\* drops the write guard; a call made from inside publish_event's loop
\* returns there.
LockInsert(t) ==
    /\ lock_threads[t].pc = "insert_insert"
    /\ lock_map' = [lock_map EXCEPT ![lock_threads[t].name] = Some(lock_threads[t].buffer)]
    /\ lock_rw' = [lock_rw EXCEPT !.writer = None]
    /\ lock_threads' =
           [lock_threads EXCEPT ![t] =
               IF @.resume = None \/ @.resume.some = << >> THEN NoThread
               ELSE [NoThread EXCEPT !.pc = "schedule", !.name = lock_threads[t].name,
                                     !.buffer = lock_threads[t].resume.some]]
    /\ UNCHANGED <<lock_calls, lock_spawned>>
    /\ UNCHANGED not_lock

\* One turn of `for f in buffer`: f(data.clone()) is invoked and its future
\* handed to tokio::spawn.  The function invoked may register a subscriber
\* before it returns; after the last turn publish_event returns.
LockSchedule(t) ==
    /\ lock_threads[t].pc = "schedule"
    /\ lock_spawned' = Append(lock_spawned, [thread |-> t,
                                             func |-> Head(lock_threads[t].buffer),
                                             lock |-> lock_rw])
    /\ \/ /\ lock_threads' =
                 [lock_threads EXCEPT ![t] =
                     IF Tail(@.buffer) = << >> THEN NoThread
                     ELSE [@ EXCEPT !.buffer = Tail(@)]]
          /\ UNCHANGED lock_calls
       \/ /\ lock_calls < MaxCalls
          /\ \E name \in EventNames : \E func \in EventFunctions :
                 lock_threads' =
                     [lock_threads EXCEPT ![t] =
                         [pc |-> "insert_read", name |-> name, func |-> func,
                          buffer |-> << >>,
                          resume |-> Some(Tail(lock_threads[t].buffer))]]
          /\ lock_calls' = lock_calls + 1
    /\ UNCHANGED <<lock_rw, lock_map>>
    /\ UNCHANGED not_lock

LockStep(t) ==
    \/ LockPublishCall(t)
    \/ LockInsertCall(t)
    \/ LockRead(t)
    \/ LockCopy(t)
    \/ LockWrite(t)
    \/ LockInsert(t)
    \/ LockSchedule(t)

LockNext == \E t \in Threads : LockStep(t)

\* Every thread that has been called into the runtime keeps running: a call
\* in progress takes its next step when the lock lets it.
LockFairness ==
    \A t \in Threads :
        /\ WF_vars(LockRead(t))
        /\ WF_vars(LockCopy(t))
        /\ WF_vars(LockWrite(t))
        /\ WF_vars(LockInsert(t))
        /\ WF_vars(LockSchedule(t))

\* --------------------------------------------- the guest's stdin loop alone
\* The main that register_contract_routes! generates, fed by any writer: lines
\* of message type 1, which the proxy writes, and lines of another type.

\* The message types a writer frames a line with.
GuestMessageTypes == {1, 2}

\* The contracts of the lines.
GuestEnvelopes == {KernelContractOne(<<74>>, 42), KernelContractTwo(<<74>>, 42)}

GuestInit ==
    /\ guest_stdin = EmptyPipe
    /\ guest_stdout = << >>
    /\ guest_main = [pc |-> "read_line", line |-> << >>]
    /\ guest_log = << >>
    /\ guest_fed = 0

GuestIdle ==
    /\ guest_stdin = EmptyPipe
    /\ guest_stdout = << >>
    /\ guest_main = [pc |-> "idle", line |-> << >>]
    /\ guest_log = << >>
    /\ guest_fed = 0

\* The writer at the other end of standard input writes one framed line.
GuestFeed ==
    /\ guest_fed < MaxCalls
    /\ ~guest_stdin.closed
    /\ \E message_type \in GuestMessageTypes : \E data \in GuestEnvelopes :
           guest_stdin' = [guest_stdin EXCEPT
                              !.bytes = @ \o encoded_message(message_type, data)
                                          \o <<Newline>>]
    /\ guest_fed' = guest_fed + 1
    /\ UNCHANGED <<guest_stdout, guest_main, guest_log>>
    /\ UNCHANGED not_guest

\* The writer closes standard input.
GuestClose ==
    /\ ~guest_stdin.closed
    /\ guest_stdin' = [guest_stdin EXCEPT !.closed = TRUE]
    /\ UNCHANGED <<guest_stdout, guest_main, guest_log, guest_fed>>
    /\ UNCHANGED not_guest

\* What one turn of the loop leaves behind: the line buffer as read_line
\* found it, the buffer after read_line, the request type parsed, the bytes
\* written to standard output, and the buffer at the end of the turn.
GuestHandled(before, line, request_type, written, after) ==
    [before |-> before, line |-> line, request_type |-> request_type,
     written |-> written, after |-> after]

\* One turn of `while reader.read_line(&mut line)? != 0`: the line is trimmed
\* and split, a request of type 1 is deserialized, routed and answered with a
\* framed line, and line is cleared; any other type is answered with
\* println!("Received unknown request type").
GuestTurn ==
    /\ guest_main.pc = "read_line"
    /\ \E r \in {read_line(guest_stdin, guest_main.line)} :
        /\ r # Pending
        /\ guest_stdin' = r.pipe
        /\ IF ~r.result.ok
           THEN /\ guest_main' = [pc |-> "returned", line |-> r.line]
                /\ UNCHANGED <<guest_stdout, guest_log>>
           ELSE IF r.result.val = 0
           THEN /\ guest_main' = [pc |-> "returned", line |-> r.line]
                /\ UNCHANGED <<guest_stdout, guest_log>>
           ELSE \E parts \in {split_at(trim(r.line), 4)} :
                IF ~parts.ok
                THEN /\ guest_main' = [pc |-> "panicked", line |-> r.line]
                     /\ UNCHANGED <<guest_stdout, guest_log>>
                ELSE IF from_be_bytes(parts.val.prefix) # 1
                THEN /\ guest_main' = [pc |-> "read_line", line |-> r.line]
                     /\ guest_stdout' = guest_stdout \o UnknownRequestTypeLine
                     /\ guest_log' = Append(guest_log,
                                            GuestHandled(guest_main.line, r.line,
                                                         from_be_bytes(parts.val.prefix),
                                                         UnknownRequestTypeLine, r.line))
                ELSE \E a \in {GuestAnswer(parts.val.data)} :
                     IF a.response = None \/ ~a.response.some.ok
                     THEN /\ guest_main' = [pc |-> "panicked", line |-> r.line]
                          /\ UNCHANGED <<guest_stdout, guest_log>>
                     ELSE /\ guest_main' = [pc |-> "read_line", line |-> << >>]
                          /\ guest_stdout' =
                                 guest_stdout \o encoded_message(1, a.response.some.val)
                                              \o <<Newline>>
                          /\ guest_log' =
                                 Append(guest_log,
                                        GuestHandled(guest_main.line, r.line, 1,
                                                     encoded_message(1, a.response.some.val)
                                                         \o <<Newline>>,
                                                     << >>))
    /\ UNCHANGED guest_fed
    /\ UNCHANGED not_guest

GuestNext ==
    \/ GuestFeed
    \/ GuestClose
    \/ GuestTurn

\* ---------------------------------------------------------- specifications

InitEnvelope ==
    /\ EnvInit
    /\ RouteIdle
    /\ CodecIdle
    /\ WrapperIdle
    /\ TcpIdle
    /\ ApiIdle
    /\ BusIdle
    /\ BridgeIdle
    /\ PipeIdle
    /\ ListenerIdle
    /\ CallIdle
    /\ LockIdle
    /\ GuestIdle

SpecEnvelope == InitEnvelope /\ [][EnvNext]_vars

InitRouter ==
    /\ RouteInit
    /\ EnvIdle
    /\ CodecIdle
    /\ WrapperIdle
    /\ TcpIdle
    /\ ApiIdle
    /\ BusIdle
    /\ BridgeIdle
    /\ PipeIdle
    /\ ListenerIdle
    /\ CallIdle
    /\ LockIdle
    /\ GuestIdle

SpecRouter == InitRouter /\ [][RouteNext]_vars

InitCodec ==
    /\ CodecInit
    /\ EnvIdle
    /\ RouteIdle
    /\ WrapperIdle
    /\ TcpIdle
    /\ ApiIdle
    /\ BusIdle
    /\ BridgeIdle
    /\ PipeIdle
    /\ ListenerIdle
    /\ CallIdle
    /\ LockIdle
    /\ GuestIdle

SpecCodec == InitCodec /\ [][CodecNext]_vars

InitWrapper ==
    /\ WrapperInit
    /\ EnvIdle
    /\ RouteIdle
    /\ CodecIdle
    /\ TcpIdle
    /\ ApiIdle
    /\ BusIdle
    /\ BridgeIdle
    /\ PipeIdle
    /\ ListenerIdle
    /\ CallIdle
    /\ LockIdle
    /\ GuestIdle

SpecWrapper == InitWrapper /\ [][WrapperNext]_vars

InitTcp ==
    /\ TcpInit
    /\ EnvIdle
    /\ RouteIdle
    /\ CodecIdle
    /\ WrapperIdle
    /\ ApiIdle
    /\ BusIdle
    /\ BridgeIdle
    /\ PipeIdle
    /\ ListenerIdle
    /\ CallIdle
    /\ LockIdle
    /\ GuestIdle

SpecTcp == InitTcp /\ [][TcpNext]_vars

InitApi ==
    /\ ApiInit
    /\ EnvIdle
    /\ RouteIdle
    /\ CodecIdle
    /\ WrapperIdle
    /\ TcpIdle
    /\ BusIdle
    /\ BridgeIdle
    /\ PipeIdle
    /\ ListenerIdle
    /\ CallIdle
    /\ LockIdle
    /\ GuestIdle

SpecApi == InitApi /\ [][ApiNext]_vars

InitBus ==
    /\ BusInit
    /\ ApiIdle
    /\ EnvIdle
    /\ RouteIdle
    /\ CodecIdle
    /\ WrapperIdle
    /\ TcpIdle
    /\ BridgeIdle
    /\ PipeIdle
    /\ ListenerIdle
    /\ CallIdle
    /\ LockIdle
    /\ GuestIdle

SpecBus == InitBus /\ [][BusNext]_vars

InitBridge ==
    /\ BridgeInit
    /\ BusIdle
    /\ ApiIdle
    /\ EnvIdle
    /\ RouteIdle
    /\ CodecIdle
    /\ WrapperIdle
    /\ TcpIdle
    /\ PipeIdle
    /\ ListenerIdle
    /\ CallIdle
    /\ LockIdle
    /\ GuestIdle

SpecBridge == InitBridge /\ [][BridgeNext]_vars

InitPipe ==
    /\ PipeInit
    /\ BridgeIdle
    /\ BusIdle
    /\ ApiIdle
    /\ EnvIdle
    /\ RouteIdle
    /\ CodecIdle
    /\ WrapperIdle
    /\ TcpIdle
    /\ ListenerIdle
    /\ CallIdle
    /\ LockIdle
    /\ GuestIdle

SpecPipe == InitPipe /\ [][PipeNext]_vars

InitListener ==
    /\ ListenerInit
    /\ PipeIdle
    /\ BridgeIdle
    /\ BusIdle
    /\ ApiIdle
    /\ EnvIdle
    /\ RouteIdle
    /\ CodecIdle
    /\ WrapperIdle
    /\ TcpIdle
    /\ CallIdle
    /\ LockIdle
    /\ GuestIdle

SpecListener == InitListener /\ [][ListenerNext]_vars

SpecListenerFair == SpecListener /\ ListenerFairness

InitCall ==
    /\ CallInit
    /\ ListenerIdle
    /\ PipeIdle
    /\ BridgeIdle
    /\ BusIdle
    /\ ApiIdle
    /\ EnvIdle
    /\ RouteIdle
    /\ CodecIdle
    /\ WrapperIdle
    /\ TcpIdle
    /\ LockIdle
    /\ GuestIdle

SpecCall == InitCall /\ [][CallNext]_vars

InitLock ==
    /\ LockInit
    /\ CallIdle
    /\ ListenerIdle
    /\ PipeIdle
    /\ BridgeIdle
    /\ BusIdle
    /\ ApiIdle
    /\ EnvIdle
    /\ RouteIdle
    /\ CodecIdle
    /\ WrapperIdle
    /\ TcpIdle
    /\ GuestIdle

SpecLock == InitLock /\ [][LockNext]_vars

SpecLockFair == SpecLock /\ LockFairness

InitGuest ==
    /\ GuestInit
    /\ LockIdle
    /\ CallIdle
    /\ ListenerIdle
    /\ PipeIdle
    /\ BridgeIdle
    /\ BusIdle
    /\ ApiIdle
    /\ EnvIdle
    /\ RouteIdle
    /\ CodecIdle
    /\ WrapperIdle
    /\ TcpIdle

SpecGuest == InitGuest /\ [][GuestNext]_vars

\* ================================================================ claims

\* C1: deserializing the serialized bytes of any envelope (each contract
\* variant and the NanoServiceError variant, every payload) yields an envelope
\* equal to it, with the same active variant.
C1_EnvelopeRoundTrip ==
    env_pc = "deserialized" =>
        /\ env_deserialized.ok
        /\ env_deserialized.val = env_value
        /\ env_deserialized.val.variant = env_value.variant

C1_Witness ==
    /\ env_pc = "deserialized"
    /\ env_value.variant = "NanoServiceError"
    /\ env_value.inner.message = UnknownContractMsg

\* C2: dispatch on a match.  When the envelope's variant V has a bound handler
\* and the handler succeeds with output r, the router has invoked that handler
\* exactly once, on the unwrapped contract, has invoked no other handler, and
\* returns Ok with r wrapped in the same variant V.
C2_DispatchOnMatch ==
    (/\ route_pc = "done"
     /\ received_msg.variant \in bindings
     /\ handler_outcome # None
     /\ handler_outcome.ok) =>
        /\ calls = <<[handler |-> received_msg.variant, arg |-> received_msg.inner]>>
        /\ route_result = Ok(ContractHandler(received_msg.variant, handler_outcome.val))

C2_Witness ==
    /\ route_pc = "done"
    /\ received_msg.variant = "ContractOne"
    /\ received_msg.variant \in bindings
    /\ handler_outcome # None
    /\ handler_outcome.ok
    /\ handler_outcome.val # received_msg.inner
    /\ route_result.ok

\* C3: unknown-variant dispatch.  Routing an envelope whose active variant has
\* no bound handler (the NanoServiceError variant included) ends with Err of
\* status ContractNotSupported and with no handler invoked; the router never
\* waits on a handler for it.
C3_UnknownVariant ==
    (received_msg # None /\ received_msg.variant \notin bindings) =>
        /\ calls = << >>
        /\ route_pc \in {"match", "done"}
        /\ route_pc = "done" =>
            /\ ~route_result.ok
            /\ route_result.err.status = "ContractNotSupported"

C3_Witness ==
    /\ route_pc = "done"
    /\ received_msg.variant = "NanoServiceError"
    /\ "NanoServiceError" \notin bindings
    /\ bindings # {}
    /\ ~route_result.ok

\* C4: handler failure propagation.  When the bound handler returns an error E
\* the router returns Err(E), message and status unchanged, and no re-wrapped
\* success envelope.
C4_HandlerFailure ==
    (/\ route_pc = "done"
     /\ handler_outcome # None
     /\ ~handler_outcome.ok) =>
        /\ ~route_result.ok
        /\ route_result.err.message = handler_outcome.err.message
        /\ route_result.err.status = handler_outcome.err.status

C4_Witness ==
    /\ route_pc = "done"
    /\ handler_outcome # None
    /\ ~handler_outcome.ok
    /\ handler_outcome.err.status = "Conflict"
    /\ route_result = Err(handler_outcome.err)

\* ---- TCP request and response

\* C5 (as claimed): when the client of tcp/client.rs sends an envelope whose
\* variant the server does not bind, or whose bound handler fails, the call
\* returns Ok(envelope), never a transport Err; the envelope's variant is
\* NanoServiceError and it carries the router's error (ContractNotSupported
\* for the unbound variant, the handler's own error otherwise).
C5_ErrorsCrossTheWire ==
    (/\ tcp_kind = "client"
     /\ client_pc = "done"
     /\ tcp_request.variant \notin TcpBound \/ tcp_fails) =>
        /\ IsOk(client_result)
        /\ client_result.val.variant = "NanoServiceError"
        /\ client_result.val.inner =
              IF tcp_request.variant \notin TcpBound
              THEN NanoServiceError_new(UnknownContractMsg, "ContractNotSupported")
              ELSE HandlerFailure.err

\* C6: whenever the client has received an envelope in answer to an
\* envelope of a bound variant V with payload p whose handler succeeded,
\* that envelope is V(h(p)): ContractOne{name, age} comes back as
\* ContractOne{name, age + 1} (the wrapped sum at i32::MAX), ContractTwo
\* comes back as it was sent; over Framed and over both wrappers.
C6_EndToEnd ==
    (/\ client_pc = "done"
     /\ IsOk(client_result)
     /\ tcp_request.variant \in TcpBound
     /\ ~tcp_fails) =>
        /\ client_result.val.variant = tcp_request.variant
        /\ tcp_request.variant = "ContractTwo" =>
              client_result.val.inner = tcp_request.inner
        /\ tcp_request.variant = "ContractOne" =>
              /\ client_result.val.inner.name = tcp_request.inner.name
              /\ client_result.val.inner.age =
                    IF tcp_request.inner.age = 2147483647 THEN (0 - 2147483647) - 1
                    ELSE tcp_request.inner.age + 1

C6_Witness ==
    /\ client_pc = "done"
    /\ tcp_kind = "version_testing"
    /\ tcp_request = ContractHandler("ContractOne", ContractOne(<<74>>, 32))
    /\ client_result = Ok(ContractHandler("ContractOne", ContractOne(<<74>>, 33)))

\* ---- the streaming codecs

IsPrefix(p, bs) == Len(p) <= Len(bs) /\ SubSeq(bs, 1, Len(p)) = p

\* bs is a proper prefix of the encoding of one item.
IsPartialFrame(c, bs) ==
    \E item \in CodecItems :
        /\ Len(bs) < Len(encode_item(c, item))
        /\ IsPrefix(bs, encode_item(c, item))

\* bs is the bincode encoding of some envelope, said from the layout: the
\* variant index, then for ContractOne a string and four bytes of age, for
\* NanoServiceError a string and a status index, nothing for the unit contracts.
IsBincodeEnvelope(bs) ==
    \/ bs \in {serialize_u32(1), serialize_u32(2)}
    \/ /\ Len(bs) >= 16
       /\ SubSeq(bs, 5, 12) = serialize_u64(Len(bs) - 16)
       /\ Utf8Valid(SubSeq(bs, 13, Len(bs) - 4))
       /\ \/ SubSeq(bs, 1, 4) = serialize_u32(0)
          \/ /\ SubSeq(bs, 1, 4) = serialize_u32(3)
             /\ \E i \in 0..6 : SubSeq(bs, Len(bs) - 3, Len(bs)) = serialize_u32(i)

\* bs is a packed integer of bitcode.
IsPackedInt(bs) ==
    /\ bs # << >>
    /\ \/ bs[1] = 4 /\ Len(bs) = 2
       \/ bs[1] = 2 /\ Len(bs) = 3
       \/ bs[1] = 0 /\ Len(bs) = 5

\* bs is the bitcode encoding of some envelope, said from the layout.
IsBitcodeEnvelope(bs) ==
    \/ bs \in {<<1>>, <<2>>}
    \/ /\ Len(bs) >= 2
       /\ bs[2] < 255
       /\ Len(bs) >= 2 + bs[2]
       /\ Utf8Valid(SubSeq(bs, 3, 2 + bs[2]))
       /\ \/ bs[1] = 0 /\ IsPackedInt(Drop(bs, 2 + bs[2]))
          \/ bs[1] = 3 /\ Len(bs) = 3 + bs[2] /\ bs[Len(bs)] < 7

IsEncodedItem(c, bs) ==
    IF c = "BitcodeCodec" THEN IsBitcodeEnvelope(bs) ELSE IsBincodeEnvelope(bs)

\* Some prefix of bs (bs itself included) is an encoded item.
BeginsWithItem(c, bs) == \E k \in 0..Len(bs) : IsEncodedItem(c, SubSeq(bs, 1, k))

IsIoError(result) == ~result.ok /\ result.err.io = "Other"

\* C7 (as claimed): when two envelopes a and b have been encoded back-to-back
\* with BincodeCodec onto one stream and the receiver has read two items from
\* it through the codec, the first is a and the second is b.
C7_FrameBoundary ==
    (/\ codec = "BincodeCodec"
     /\ Len(sent) = 2
     /\ to_send = << >>
     /\ Len(frames) >= 2
     /\ frames[1] # None /\ frames[1].ok
     /\ frames[2] # None /\ frames[2].ok) =>
        /\ frames[1] = Ok(sent[1])
        /\ frames[2] = Ok(sent[2])

\* C8 (as claimed): decode called on a buffer that holds only a proper prefix
\* of one encoded item returns Ok(None) and leaves the buffered bytes intact.
C8_PartialFrame ==
    (last_decode # None /\ IsPartialFrame(codec, last_decode.input)) =>
        /\ last_decode.result = Ok(None)
        /\ last_decode.src = last_decode.input

\* C9 (as claimed): for every buffer that is not a valid encoding of an item,
\* decode returns Err of an I/O error kind.
C9_MalformedIsError ==
    (last_decode # None /\ ~IsEncodedItem(codec, last_decode.input)) =>
        IsIoError(last_decode.result)

\* C9 (amended): for every buffer that does not begin with a valid encoding of
\* an item, decode returns an error of an I/O kind and leaves the call
\* finished (no panic): every call of decode ends in a result.
C9_MalformedPrefixIsError ==
    (last_decode # None /\ ~BeginsWithItem(codec, last_decode.input)) =>
        IsIoError(last_decode.result)

C9_Witness ==
    /\ last_decode # None
    /\ sent = << >>
    /\ Len(last_decode.input) > MaxRaw
    /\ ~BeginsWithItem(codec, last_decode.input)
    /\ IsIoError(last_decode.result)

\* ---- the contract wrappers

\* C10 (as claimed): for every value v, new(v) of either wrapper succeeds and
\* stores payload bytes that decode to v and header bytes that decode to
\* exactly the number of payload bytes, and leaves header and contract None.
C10_WrapperConstruction ==
    w_new # None =>
        /\ w_new.result.ok
        /\ w_new.result.val.header = None
        /\ w_new.result.val.contract = None
        /\ w_new.result.val.contract_bytes # None
        /\ w_new.result.val.header_bytes # None
        /\ \E v \in {wrapper_decode(wrapper_kind, w_new.result.val.contract_bytes.some)} :
              v.ok /\ v.val = w_new.contract
        /\ \E n \in {wrapper_decode_header(wrapper_kind, w_new.result.val.header_bytes.some)} :
              n.ok /\ as_usize(n.val) = Vec_len(w_new.result.val.contract_bytes.some)

\* The payload bytes of a value: its serialization in the wrapper's format.
wrapper_payload(kind, contract) ==
    IF kind = "BincodeContractWrapper" THEN serialize_to_vec(contract)
    ELSE Vec(bitcode_encode(contract))

\* The bytes [from + 1 .. from + n] of a sequence, as far as it has them.
Slice(bytes, from, n) ==
    SubSeq(bytes, from + 1, IF from + n <= Len(bytes) THEN from + n ELSE Len(bytes))

\* The stream `after` is the stream `before` with one frame of the wire
\* format appended: (bincode) 4 header bytes holding the payload length, then
\* the payload; (bitcode) one byte counting the header bytes, the header bytes
\* encoding the payload length, then the payload.
IsFrameAppended(kind, before, after, payload) ==
    \E pre \in {IF kind = "BincodeContractWrapper" THEN << >>
                ELSE Slice(after.bytes, Len(before.bytes), 1)} :
    \E header \in {IF kind = "BincodeContractWrapper"
                   THEN Slice(after.bytes, Len(before.bytes), 4)
                   ELSE IF pre = << >> THEN << >>
                   ELSE Slice(after.bytes, Len(before.bytes) + 1, pre[1])} :
        /\ kind = "BincodeContractWrapper" => Len(header) = 4
        /\ kind # "BincodeContractWrapper" => pre = <<Len(header)>>
        /\ \E n \in {wrapper_decode_header(kind, header)} :
              n.ok /\ as_usize(n.val) = Vec_len(payload)
        /\ after = write_all_vec(write_all(write_all(before, pre), header), payload)

\* C11 (as claimed): every send of a wrapper built by new appends to the
\* stream exactly one frame of the wire format, whose header holds the
\* payload's byte count, and nothing else.
C11_WireFormat ==
    [][(w_new # None /\ Len(w_sent') = Len(w_sent) + 1) =>
          IsFrameAppended(wrapper_kind, w_stream, w_stream',
                          wrapper_payload(wrapper_kind, w_new.contract))]_vars

RECURSIVE SentStream(_, _, _)
\* The stream after the values are sent back-to-back on it, each through a
\* wrapper built by new.
SentStream(kind, values, stream) ==
    IF values = << >> THEN stream
    ELSE SentStream(kind, Tail(values),
                    wrapper_send(kind, wrapper_new(kind, Head(values)).val, stream))

\* The stream holds the frames of the values and nothing else.
HoldsFrames(kind, stream, values) ==
    [stream EXCEPT !.closed = FALSE] = SentStream(kind, values, Stream(<< >>, FALSE))

\* The i-th receive returned the i-th value sent: Ok, the wrapper's contract
\* the value, its header the byte count of the value's payload.
ReceivedValue(i) ==
    /\ w_received[i].result = Ok("unit")
    /\ w_received[i].self.contract = Some(w_sent[i])
    /\ w_received[i].self.header # None
    /\ as_usize(w_received[i].self.header.some)
           = Vec_len(wrapper_payload(wrapper_kind, w_sent[i]))

\* C12 (as claimed): whenever the i-th receive found on the stream the frames
\* of the i-th to the j-th value sent, it returned the i-th value, with the
\* header its payload's byte count, and left on the stream exactly the frames
\* of the values after it.
C12_FrameIntegrity ==
    \A i \in 1..Len(w_received) : \A j \in i..Len(w_sent) :
        HoldsFrames(wrapper_kind, w_received[i].before, SubSeq(w_sent, i, j)) =>
            /\ ReceivedValue(i)
            /\ HoldsFrames(wrapper_kind, w_received[i].after, SubSeq(w_sent, i + 1, j))
            /\ w_received[i].after.closed = w_received[i].before.closed

\* The stream ends before a whole frame: before the header is complete, or
\* before as many payload bytes as the header announces.  `lead` counts the
\* bytes in front of the payload.
EndsShort(kind, stream) ==
    /\ stream.closed
    /\ WrittenOut(stream)
    /\ \E lead \in {IF kind = "BincodeContractWrapper" THEN 4
                     ELSE IF stream.bytes = << >> THEN 1
                     ELSE 1 + stream.bytes[1]} :
        \/ Len(stream.bytes) < lead
        \/ \E n \in {wrapper_decode_header(kind,
                         IF kind = "BincodeContractWrapper" THEN Slice(stream.bytes, 0, 4)
                         ELSE Slice(stream.bytes, 1, lead - 1))} :
              /\ n.ok
              /\ \/ ~Countable(as_usize(n.val))
                 \/ Len(stream.bytes) - lead < Count(as_usize(n.val))

\* C13: a receive on a stream that ends before the whole header, or before the
\* payload bytes the header announces, returns the error of the failed read
\* at once and leaves the wrapper without a contract.
C13_ShortReadIsError ==
    \A i \in 1..Len(w_received) :
        EndsShort(wrapper_kind, w_received[i].before) =>
            /\ w_received[i].result = Err(BadRequest("FillBuffer"))
            /\ w_received[i].self.contract = None

\* A receive found a whole header and fewer payload bytes than it announces.
C13_Witness ==
    \E i \in 1..Len(w_received) :
        /\ EndsShort(wrapper_kind, w_received[i].before)
        /\ Len(w_received[i].before.bytes) > 5
        /\ w_received[i].result = Err(BadRequest("FillBuffer"))

\* C14 (as claimed): new builds a wrapper only with a header that decodes to
\* the payload's true byte count, and returns an error for a payload whose
\* byte count does not fit in 32 bits.
C14_LengthNeverTruncated ==
    w_new # None =>
        \E length \in {Vec_len(wrapper_payload(wrapper_kind, w_new.contract))} :
            IF as_usize(as_u32(length)) = length
            THEN w_new.result.ok =>
                    \E n \in {wrapper_decode_header(wrapper_kind,
                                                     w_new.result.val.header_bytes.some)} :
                        n.ok /\ as_usize(n.val) = length
            ELSE ~w_new.result.ok

\* An error value is an std::io::Error / a NanoServiceError.
IsTransportError(e) == "io" \in DOMAIN e

IsNanoServiceError(e) == DOMAIN e = {"message", "status"}

\* C15 (as claimed): every failure of a wrapper's new or receive is a
\* transport-level I/O error and not a NanoServiceError value.
C15_FailuresAreIoErrors ==
    /\ (w_new # None /\ ~w_new.result.ok) =>
            IsTransportError(w_new.result.err) /\ ~IsNanoServiceError(w_new.result.err)
    /\ \A i \in 1..Len(w_received) :
            ~w_received[i].result.ok =>
                /\ IsTransportError(w_received[i].result.err)
                /\ ~IsNanoServiceError(w_received[i].result.err)

\* The last call of a generated method was a call of `op`.
Called(op) == "op" \in DOMAIN api_call /\ api_call.op = op

\* The tags test_contract_handler_string_refs expects: "contractone_contract",
\* "contracttwo_contract", "contractthree_contract", "nanoService_error".
ExpectedTag(variant) ==
    CASE variant = "ContractOne" ->
            <<99, 111, 110, 116, 114, 97, 99, 116, 111, 110, 101, 95, 99, 111, 110, 116,
              114, 97, 99, 116>>
      [] variant = "ContractTwo" ->
            <<99, 111, 110, 116, 114, 97, 99, 116, 116, 119, 111, 95, 99, 111, 110, 116,
              114, 97, 99, 116>>
      [] variant = "ContractThree" ->
            <<99, 111, 110, 116, 114, 97, 99, 116, 116, 104, 114, 101, 101, 95, 99, 111,
              110, 116, 114, 97, 99, 116>>
      [] variant = "NanoServiceError" ->
            <<110, 97, 110, 111, 83, 101, 114, 118, 105, 99, 101, 95, 101, 114, 114, 111, 114>>

\* tag is the type name `name` in lower case followed by "_contract".
IsLowercasedContractTag(tag, name) ==
    /\ Len(tag) = Len(name) + 9
    /\ SubSeq(tag, Len(name) + 1, Len(tag)) = <<95, 99, 111, 110, 116, 114, 97, 99, 116>>
    /\ \A i \in 1..Len(name) :
          /\ tag[i] \notin 65..90
          /\ tag[i] = name[i] \/ (name[i] \in 65..90 /\ tag[i] = name[i] + 32)

\* C16: to_string_ref returns the variant's type name in lower case followed
\* by "_contract", "nanoService_error" for the error variant, the tags the test
\* expects for the test's types; two calls in a row on envelopes of one
\* variant, whatever their payloads, return the same tag.
C16_TagFormat ==
    /\ [](Called("to_string_ref") =>
            /\ api_call.self.variant \in {"ContractOne", "ContractTwo", "ContractThree",
                                          "NanoServiceError"}
                  => api_call.result = ExpectedTag(api_call.self.variant)
            /\ api_call.self.variant # "NanoServiceError"
                  => IsLowercasedContractTag(api_call.result, stringify(api_call.self.variant)))
    /\ [][(/\ Called("to_string_ref")
            /\ api_call'.op = "to_string_ref"
            /\ api_call'.self.variant = api_call.self.variant)
           => api_call'.result = api_call.result]_vars

\* to_string_ref was called on a ContractOne envelope and returned
\* "contractone_contract".
C16_Witness ==
    /\ Called("to_string_ref")
    /\ api_call.self = ContractHandler("ContractOne", ContractOne(<<74, 111>>, -1))
    /\ api_call.result = ExpectedTag("ContractOne")

\* C17 (as claimed): in every declared envelope type, the tag to_string_ref
\* returns for an envelope differs from the tag of every envelope of another
\* variant.
C17_TagUniqueness ==
    Called("to_string_ref") =>
        \A e \in EnvelopesOf(api_variants) :
            e.variant # api_call.self.variant => to_string_ref(e) # api_call.result

\* C18 (as claimed): from_contract_bytes, given the bytes to_contract_bytes
\* returns for an envelope e and e's tag, returns Ok(e); an envelope it returns
\* has the tag it was given; the bytes of to_contract_bytes are the inner
\* value's serialization, which the inner type is read back from.
C18_TagGuidedRoundTrip ==
    /\ Called("from_contract_bytes") =>
          /\ \A e \in EnvelopesOf(api_variants) :
                (/\ to_contract_bytes(e) = Ok(api_call.bytes)
                 /\ to_string_ref(e) = api_call.string_ref)
                    => api_call.result = Ok(e)
          /\ api_call.result.ok => to_string_ref(api_call.result.val) = api_call.string_ref
    /\ Called("to_contract_bytes") =>
          /\ api_call.result.ok
          /\ deserialize_contract(api_call.self.variant, api_call.result.val)
                = Read(api_call.self.inner, << >>)

\* message ends with the type name `name`.
NamesVariant(message, name) ==
    /\ Len(message) >= Len(name)
    /\ SubSeq(message, Len(message) - Len(name) + 1, Len(message)) = name

\* The accessor failed with a BadRequest error that names the variant it expects.
IsExpectedVariantError(result, variant) ==
    /\ ~result.ok
    /\ result.err.status = "BadRequest"
    /\ NamesVariant(result.err.message, stringify(variant))
    /\ Len(result.err.message) > Len(stringify(variant))

\* C19 (as claimed): the accessor V returns Ok(inner) on an envelope whose
\* active variant is V, and on every other envelope an Err of status BadRequest
\* whose message names V.
C19_NarrowingAccessor ==
    Called("accessor") =>
        IF api_call.self.variant = api_call.variant
        THEN api_call.result = Ok(api_call.self.inner)
        ELSE IsExpectedVariantError(api_call.result, api_call.variant)

\* C19 (amended): the accessor V returns Ok(inner) on an envelope whose active
\* variant is V; on an envelope of the error variant it returns Err of the
\* error the envelope carries; on every other envelope an Err of status
\* BadRequest whose message names V.
C19_NarrowingAccessorOrCarriedError ==
    Called("accessor") =>
        IF api_call.self.variant = api_call.variant
        THEN api_call.result = Ok(api_call.self.inner)
        ELSE IF api_call.self.variant = "NanoServiceError"
        THEN api_call.result = Err(api_call.self.inner)
        ELSE IsExpectedVariantError(api_call.result, api_call.variant)

\* The accessor of one contract variant was called on an envelope of another
\* and failed with the error naming the variant it expects.
C19_Witness ==
    /\ Called("accessor")
    /\ api_call.variant # "NanoServiceError"
    /\ api_call.self.variant \notin {api_call.variant, "NanoServiceError"}
    /\ IsExpectedVariantError(api_call.result, api_call.variant)

\* C20: internal_index returns k on an envelope of the k-th declared contract
\* variant, 0 on an envelope of the error variant, and on no envelope of
\* another variant the same index.
C20_OrdinalIndex ==
    Called("internal_index") =>
        /\ api_call.self.variant = "NanoServiceError" => api_call.result = 0
        /\ \A k \in 1..Len(api_variants) :
              api_call.self.variant = api_variants[k] => api_call.result = k
        /\ \A e \in EnvelopesOf(api_variants) :
              e.variant # api_call.self.variant
                  => internal_index(api_variants, e) # api_call.result

\* internal_index was called on an envelope of the last of three declared
\* variants and returned 3.
C20_Witness ==
    /\ Called("internal_index")
    /\ Len(api_variants) >= 3
    /\ api_call.self.variant = api_variants[3]
    /\ api_call.result = 3

\* The tasks spawned for the publish_event call `publish`, in spawn order.
TasksOf(publish) == SelectSeq(bus_tasks, LAMBDA task : task.publish = publish)

\* The functions whose registration under `name` has returned, in that order.
RegisteredUnder(name) ==
    LET under == SelectSeq(bus_registered, LAMBDA r : r.name = name)
    IN  [i \in 1..Len(under) |-> under[i].func]

\* C21: a publish_event for a name the registry has no buffer for returns at
\* its lookup, spawns no task then or later, and leaves the registry as it is.
C21_NoSubscriber ==
    /\ [](\A i \in 1..Len(bus_published) :
            bus_published[i].map[bus_published[i].name] = None =>
                /\ bus_published[i].returned
                /\ TasksOf(i) = << >>
                /\ \A t \in Threads :
                      bus_threads[t].pc = "publish" => bus_threads[t].publish # i)
    /\ [][(/\ Len(bus_published') = Len(bus_published) + 1
            /\ HASHMAP[bus_published'[Len(bus_published')].name] = None)
           => HASHMAP' = HASHMAP /\ bus_tasks' = bus_tasks]_vars

\* An event was published under a name with no subscriber while the other
\* name had one.
C21_Witness ==
    \E i \in 1..Len(bus_published) :
        /\ bus_published[i].map[bus_published[i].name] = None
        /\ \E n \in EventNames : bus_published[i].map[n] # None
        /\ bus_published[i].returned

\* C22 (as claimed): registering a function under a name it is already
\* registered under leaves the name's buffer as it was, so no buffer holds a
\* function twice and no publish spawns a function twice.
C22_RegistrationIdempotent ==
    /\ \A n \in EventNames : \A i, j \in 1..Len(unwrap_or_else(HASHMAP[n], << >>)) :
          HASHMAP[n].some[i] = HASHMAP[n].some[j] => i = j
    /\ \A p \in 1..Len(bus_published) : \A i, j \in 1..Len(TasksOf(p)) :
          TasksOf(p)[i].func = TasksOf(p)[j].func => i = j

\* C23 (as claimed): whenever no insert_into_hashmap call is under way, the
\* buffer of each name holds exactly the functions whose registration under
\* that name has returned, in that order.
C23_RegistrationsNotLost ==
    (\A t \in Threads : bus_threads[t].pc # "insert") =>
        \A n \in EventNames : unwrap_or_else(HASHMAP[n], << >>) = RegisteredUnder(n)

\* C24: the tasks of a publish_event call are one per function of the buffer
\* it looked up, in buffer order, each with the published bytes, all spawned
\* once it has returned; a task that runs changes nothing of the publishing
\* calls.
C24_FireAndForget ==
    /\ [](\A p \in 1..Len(bus_published) :
            \E tasks \in {TasksOf(p)} : \E buffer \in {unwrap_or_else(bus_published[p].buffer, << >>)} :
                /\ Len(tasks) <= Len(buffer)
                /\ bus_published[p].returned => Len(tasks) = Len(buffer)
                /\ \A i \in 1..Len(tasks) :
                      tasks[i].func = buffer[i] /\ tasks[i].data = bus_published[p].data)
    /\ [][(Len(bus_tasks') = Len(bus_tasks) /\ bus_tasks' # bus_tasks)
           => UNCHANGED <<bus_published, bus_threads, HASHMAP>>]_vars

\* A publish_event call with two subscribers has returned and neither of its
\* tasks has run.
C24_Witness ==
    \E p \in 1..Len(bus_published) :
        /\ bus_published[p].returned
        /\ Len(TasksOf(p)) = 2
        /\ \A i \in 1..2 : TasksOf(p)[i].state = "spawned"

\* C25: a task panics only when its own function cannot decode the bytes (here
\* routed_one given no bytes) and completes otherwise; the publish_event call
\* returns with every function of its buffer spawned whatever becomes of the
\* tasks; a task that runs changes no other task.
C25_FailureIsolation ==
    /\ [](/\ \A i \in 1..Len(bus_tasks) :
              /\ bus_tasks[i].state = "panicked"
                    => bus_tasks[i].func = "routed_one" /\ bus_tasks[i].data = << >>
              /\ bus_tasks[i].state = "completed"
                    => ~(bus_tasks[i].func = "routed_one" /\ bus_tasks[i].data = << >>)
           /\ \A p \in 1..Len(bus_published) :
                (bus_published[p].returned /\ bus_published[p].buffer # None)
                    => Len(TasksOf(p)) = Len(bus_published[p].buffer.some))
    /\ [][\A i \in 1..Len(bus_tasks) :
            (bus_tasks'[i] # bus_tasks[i])
                => \A j \in 1..Len(bus_tasks) : j # i => bus_tasks'[j] = bus_tasks[j]]_vars

\* One publish of no bytes to routed_one and routed_two: the first task
\* panicked, the second completed, the call returned.
C25_Witness ==
    \E p \in 1..Len(bus_published) :
        /\ bus_published[p].returned
        /\ bus_published[p].data = << >>
        /\ Len(TasksOf(p)) = 2
        /\ TasksOf(p)[1].func = "routed_one" /\ TasksOf(p)[1].state = "panicked"
        /\ TasksOf(p)[2].func = "routed_two" /\ TasksOf(p)[2].state = "completed"

\* The free calls issued for the allocation `block`.
FreesOf(block) ==
    {i \in 1..Len(bridge_frees) :
        bridge_frees[i].ptr = block.ptr /\ bridge_frees[i].size = block.size}

\* C26: guest bridge allocation balance.  No free call is given a block that
\* is not live (nothing is freed twice), and once the host has gone through its
\* whole call sequence the guest has made exactly 3 allocations (the input
\* buffer, the result bytes, the descriptor), the host has issued exactly 3
\* free calls, every allocation is the block of exactly one of them, and
\* nothing is left allocated.
C26_AllocationBalance ==
    /\ \A i \in 1..Len(bridge_frees) :
           bridge_frees[i].valid /\ Cardinality(bridge_frees[i].gone) = 1
    /\ bridge_host.pc = "done" =>
           /\ Len(bridge_allocs) = 3
           /\ [i \in 1..3 |-> bridge_allocs[i].what] = <<"input", "result", "descriptor">>
           /\ Len(bridge_frees) = 3
           /\ \A i \in 1..3 : Cardinality(FreesOf(bridge_allocs[i])) = 1
           /\ bridge_heap.live = {}

\* A host that went through the whole sequence for a ContractOne, whose
\* result bytes differ in length from its input.
C26_Witness ==
    /\ bridge_host.pc = "done"
    /\ bridge_host.contract.variant = "ContractOne"
    /\ Len(bridge_frees) = 3
    /\ bridge_allocs[1].size # bridge_allocs[2].size

\* The frame of a request: the type 1 in 4 bytes, high byte first, the
\* serialized contract, one newline.
RequestFrame(data) == <<0, 0, 0, 1>> \o kernel_bincode_serialize(data) \o <<Newline>>

\* C27: pipe request framing.  A request whose response the proxy has started
\* to read, or is about to, has had exactly its frame written to the child's
\* standard input and flushed; nothing is written or flushed for a request
\* once its response is being read, and the proxy takes bytes from the child's
\* standard output only in the read that follows the flush.
C27_RequestFraming ==
    /\ [](\A i \in 1..Len(pipe_log) :
              (pipe_log[i].read \/ (i = PipeCurrent /\ pipe_host.pc = "read_until"))
                  => /\ pipe_log[i].written = RequestFrame(pipe_log[i].data)
                     /\ pipe_log[i].flushed)
    /\ [][/\ \A i \in 1..Len(pipe_log) :
              (pipe_log'[i].written # pipe_log[i].written
                   \/ pipe_log'[i].flushed # pipe_log[i].flushed)
                  => (~pipe_log[i].read /\ ~pipe_log'[i].read)
          /\ (Len(pipe_stdout'.bytes) < Len(pipe_stdout.bytes))
                  => (/\ pipe_host.pc = "read_until"
                      /\ pipe_log[PipeCurrent].written
                             = RequestFrame(pipe_log[PipeCurrent].data)
                      /\ pipe_log[PipeCurrent].flushed)]_vars

\* Two requests forwarded and answered, one after the other.
C27_Witness ==
    /\ Len(pipe_log) = 2
    /\ pipe_log[1].read /\ pipe_log[1].host_response.some.ok
    /\ pipe_log[2].read /\ pipe_log[2].host_response.some.ok

\* C28: pipe frame integrity.  What the guest deserializes from the line it
\* read is the contract the proxy serialized, and what the proxy deserializes
\* from the bytes it read up to the newline is the response the guest
\* serialized.
C28_PipeFrameIntegrity ==
    \A i \in 1..Len(pipe_log) :
        /\ pipe_log[i].guest_request # None
               => /\ pipe_log[i].guest_request.some.ok
                  /\ pipe_log[i].guest_request.some.val = pipe_log[i].data
        /\ (pipe_log[i].host_response # None /\ pipe_log[i].guest_response # None)
               => /\ pipe_log[i].host_response.some.ok
                  /\ pipe_log[i].host_response.some.val = pipe_log[i].guest_response.some

\* The whole frame of connection c has reached the server's socket.
WholeFrameSent(c) ==
    /\ listener_conns[c].status = "connected"
    /\ listener_conns[c].sent = Len(listener_conns[c].frame)

\* The server has dealt with connection c: answered it, or read it and
\* dropped it.
Served(c) == listener_conns[c].response # None \/ listener_conns[c].dropped

\* C29: connection independence.  With the server running whenever it can, a
\* connection whose whole frame has arrived is served, whatever the other
\* connections do or fail to do.
C29_ConnectionIndependence ==
    \A c \in Connections : WholeFrameSent(c) ~> Served(c)

\* The peer closed the connection before the whole of its answer had gone
\* out, after the call had sent its request.
ClosedBeforeResponse ==
    /\ call_log.sent # << >>
    /\ call_peer.closed
    /\ call_peer.written < Len(call_peer.frame)

\* C30: a closed connection is terminal for the call.  A call that returns
\* after the peer closed before its whole answer had gone out returns Err; an
\* Ok is the peer's whole answer; the call connects at most once and sends at
\* most once, and once it has returned it does nothing more.
C30_ClosedConnectionIsTerminal ==
    /\ [](/\ (call_pc = "done" /\ ClosedBeforeResponse) => ~call_result.ok
          /\ (call_pc = "done" /\ call_result.ok)
                 => (/\ call_peer.written = Len(call_peer.frame)
                     /\ BincodeCodec_encode(call_result.val, << >>) = call_peer.frame)
          /\ (call_pc # "done") => (call_result = None)
          /\ call_log.connects <= 1
          /\ call_log.sends <= 1)
    /\ [][(call_pc = "done")
             => (/\ call_pc' = "done"
                 /\ call_result' = call_result
                 /\ call_log' = call_log)]_vars

\* The peer closed without a byte of answer and the call returned an error
\* after its one connect and one send: decode is given the empty buffer at the
\* end of the stream and fails.
C30_Witness ==
    /\ call_pc = "done"
    /\ ClosedBeforeResponse
    /\ call_peer.written = 0
    /\ call_log.connects = 1 /\ call_log.sends = 1
    /\ call_result = Err(NanoServiceError_new(DeserializeFailedMsg, "BadRequest"))

\* The envelope the server answers the frame it decoded with.
ServerAnswer ==
    server_response(tcp_kind, handle_contract(server_data, TcpBound, tcp_outcome)).some

C32_MatchingDeallocation ==
    \A i \in 1..Len(bridge_frees) :
        \E b \in bridge_frees[i].gone :
            /\ b.ptr = bridge_frees[i].ptr
            /\ b.size = bridge_frees[i].size
            /\ b.align = bridge_frees[i].alignment
\* The block of the heap at an address is allocated.
LiveAt(heap, ptr) == \E b \in heap.live : b.ptr = ptr

\* C33: guest bridge step ordering.  Within one call the host allocates,
\* writes the input, invokes the entry point, reads the descriptor and the
\* result bytes, and only then frees: the entry point is invoked on an
\* allocated input buffer that holds the serialized contract, and the buffer is
\* still allocated when it has returned; the descriptor and the result bytes
\* are allocated while the host reads them; a free call is made only by a host
\* that has read both, and nothing leaves the heap otherwise.
C33_StepOrdering ==
    /\ []((bridge_host.pc \in {"allocated", "written", "returned"})
              => (bridge_frees = << >> /\ LiveAt(bridge_heap, bridge_host.input_data_ptr)))
    /\ [][/\ (bridge_host.pc = "start")
              => (bridge_host'.pc \in {"allocated", "panicked"})
          /\ (bridge_host'.pc = "written")
              => (bridge_host.pc = "allocated")
          /\ (bridge_host'.pc = "returned")
              => (/\ bridge_host.pc = "written"
                  /\ MemoryRead(bridge_memory, bridge_host.input_data_ptr,
                                Len(bridge_host.serialized)) = Ok(bridge_host.serialized)
                  /\ LiveAt(bridge_heap', bridge_host.input_data_ptr))
          /\ (bridge_host.pc # "read" /\ bridge_host'.pc = "read")
              => (/\ bridge_host.pc = "returned"
                  /\ LiveAt(bridge_heap, bridge_host.ret)
                  /\ LiveAt(bridge_heap, bridge_host'.result_struct.ptr)
                  /\ bridge_frees = << >>)
          /\ (bridge_frees' # bridge_frees \/ ~(bridge_heap.live \subseteq bridge_heap'.live))
              => (/\ bridge_host.pc = "read"
                  /\ Len(bridge_frees') = Len(bridge_frees) + 1
                  /\ bridge_host.output = kernel_from_contract_bytes(
                         MemoryRead(bridge_memory, bridge_host.result_struct.ptr,
                                    bridge_host.result_struct.len).val,
                         bridge_host.name_ref).val)]_vars

\* The host has gone through all its steps and freed the three blocks.
C33_Witness ==
    /\ bridge_host.pc = "done"
    /\ Len(bridge_frees) = 3
    /\ bridge_heap.live = {}
    /\ bridge_host.output.variant = "ContractTwo"
\* C34: entry-point addressing.  For every contract bound in
\* register_wasm_contract_routes!, the name of the function the guest exports
\* for it equals the tag to_string_ref returns for its envelope variant; the
\* host's lookup by the tag finds the entry point of that contract, whose
\* handler is the one bound to the variant, and the result bytes decode under
\* the same tag to the envelope of that variant holding the handler's result.
C34_EntryPointAddressing ==
    /\ \A e \in KernelContracts :
           e.variant \in KernelBound =>
               /\ entry_point_name(e.variant) = to_string_ref(e)
               /\ to_string_ref(e) \in EntryPoints
               /\ EntryContract(to_string_ref(e)) = e.variant
    /\ (bridge_host.pc # "idle" /\ bridge_host.contract.variant \in KernelBound) =>
           /\ (bridge_host.pc = "panicked") => (bridge_build = "checked")
           /\ (bridge_host.pc \in {"read", "done"}) =>
                  /\ bridge_host.output.variant = bridge_host.contract.variant
                  /\ bridge_host.output.inner =
                         kernel_handle_contract(bridge_host.contract.variant,
                                                bridge_host.contract.inner).val

\* The host has decoded the result of the ContractOne entry point, whose
\* handler has put the name Bob in.
C34_Witness ==
    /\ bridge_host.pc = "read"
    /\ bridge_host.contract.variant = "ContractOne"
    /\ bridge_host.name_ref = entry_point_name("ContractOne")
    /\ bridge_host.output.inner.name = Bob
    /\ bridge_host.output.inner # bridge_host.contract.inner
\* C35: the synchronous router (register_wasm_contract_routes!) and the
\* asynchronous router (register_contract_routes!) are equivalent.  With the
\* same envelope type, the same bindings and a handler that computes the same
\* result, what the asynchronous router has returned for an envelope is what
\* the synchronous router returns for it: the same re-wrapped variant on
\* success, the same error on handler failure, the same ContractNotSupported
\* error when no arm matches.
C35_RouterEquivalence ==
    (route_pc = "done") =>
        /\ route_result = register_wasm_contract_routes(received_msg, bindings, handler_outcome)
        /\ \A outcome \in HandlerOutcomes(received_msg.variant) :
               handle_contract(received_msg, bindings, outcome)
                   = register_wasm_contract_routes(received_msg, bindings, outcome)

\* The asynchronous router has returned the error of a failed handler.
C35_Witness ==
    /\ route_pc = "done"
    /\ received_msg.variant \in bindings
    /\ handler_outcome # None
    /\ ~handler_outcome.ok
    /\ route_result = Err(handler_outcome.err)
    /\ route_result = register_wasm_contract_routes(received_msg, bindings, handler_outcome)
\* The server ended the read loop of connection c without an answer: the
\* stream ended or what it delivered did not decode.
Failed(c) == listener_conns[c].dropped /\ listener_conns[c].response = None

InBacklog(c) == \E i \in 1..Len(listener_backlog) : listener_backlog[i] = c

\* C36: a failing connection ends only itself.  When a connection reaches the
\* end of its stream or delivers a frame that does not decode, the server ends
\* the read loop of that connection, touches no other connection and is back
\* at accept; a connection waiting to be accepted is accepted afterwards, and
\* its request, once decoded, is dispatched and answered.
C36_FailureEndsOnlyItself ==
    /\ [][\A c \in Connections :
              (~Failed(c) /\ Failed(c)')
                  => (/\ listener_server.pc = "next"
                      /\ listener_server.conn = c
                      /\ listener_server'.pc = "accept"
                      /\ listener_backlog' = listener_backlog
                      /\ \A d \in Connections \ {c} :
                             listener_conns'[d] = listener_conns[d])]_vars
    /\ \A c \in Connections : \A d \in Connections \ {c} :
           /\ (Failed(c) /\ InBacklog(d)) ~> listener_conns[d].accepted
           /\ (Failed(c) /\ listener_server.pc = "handle" /\ listener_server.conn = d)
                  ~> (listener_conns[d].response # None)

\* The server is dispatching the request of connection 2, which it accepted
\* after connection 1 had closed without a frame.
C36_Witness ==
    /\ Failed(1)
    /\ listener_conns[1].status = "closed"
    /\ listener_server.pc = "handle"
    /\ listener_server.conn = 2
    /\ listener_conns[2].response = None
\* C37: a failed receive leaves the wrapper unchanged.  When blocking_receive
\* or async_receive returns Err (short read, undecodable header or undecodable
\* payload), pre_header, header and contract hold what they held before the
\* call; they are updated, together, only by a receive that returns Ok.
C37_FailedReceiveLeavesWrapper ==
    \A i \in 1..Len(w_received) :
        /\ (~w_received[i].result.ok) => (w_received[i].self = wrapper_empty(wrapper_kind))
        /\ (w_received[i].result.ok) =>
               (/\ w_received[i].self.header # None
                /\ w_received[i].self.contract # None
                /\ (wrapper_kind = "BitcodeContractWrapper")
                       => (w_received[i].self.pre_header # None))
Outstanding == {i \in 1..Len(pipe_log) : pipe_log[i].written # << >> /\ ~pipe_log[i].read}

\* C39: pipe lockstep.  The proxy has at most one request outstanding at the
\* child; it writes bytes of a request to the child's standard input only when
\* it has read the response line of every request before it; and the k-th
\* line it reads is the child's answer to the k-th request: the child has
\* answered that request and no later one, and nothing is left in either pipe
\* when the proxy goes on to the next request.
C39_PipeLockstep ==
    /\ [](/\ Cardinality(Outstanding) <= 1
          /\ \A i \in 1..Len(pipe_log) :
                 /\ (i < Len(pipe_log)) => (pipe_log[i].read /\ pipe_log[i].host_response.some.ok)
                 /\ (pipe_log[i].read /\ pipe_log[i].host_response.some.ok)
                        => (/\ pipe_log[i].guest_response # None
                            /\ pipe_log[i].guest_request.some.ok
                            /\ \A j \in (i + 1)..Len(pipe_log) :
                                   (pipe_log[j].written = << >>)
                                       => (pipe_log[j].guest_response = None))
          /\ (pipe_host.pc = "next")
                 => (pipe_stdin.bytes = << >> /\ pipe_stdout.bytes = << >>))
    /\ [][/\ (Len(pipe_log') = Len(pipe_log)
                  /\ Len(pipe_log) > 0
                  /\ pipe_log'[PipeCurrent].written # pipe_log[PipeCurrent].written)
                 => (/\ ~pipe_log[PipeCurrent].read
                     /\ \A i \in 1..(PipeCurrent - 1) : pipe_log[i].read)
          /\ (Len(pipe_log') = Len(pipe_log)
                  /\ Len(pipe_log) > 0
                  /\ ~pipe_log[PipeCurrent].read
                  /\ pipe_log'[PipeCurrent].read)
                 => (/\ pipe_log[PipeCurrent].flushed
                     /\ Outstanding = {PipeCurrent})]_vars

\* The proxy has read the answer to its second request, having read the
\* answer to the first before it wrote the second.
C39_Witness ==
    /\ Len(pipe_log) = 2
    /\ pipe_log[1].read
    /\ pipe_log[2].read
    /\ pipe_log[2].host_response.some.ok
    /\ pipe_log[2].host_response.some.val = pipe_log[2].guest_response.some
    /\ pipe_log[2].data # pipe_log[1].data
\* C40: the guest's stdin loop keeps requests separate.  After any input line
\* has been handled, whatever its message type, the line buffer is empty
\* before the next line is read, so every request is parsed from its own line
\* only; the guest writes to standard output exactly one framed response line
\* for a request of message type 1 and nothing for any other input.
C40_GuestKeepsRequestsSeparate ==
    \A i \in 1..Len(guest_log) :
        /\ guest_log[i].before = << >>
        /\ guest_log[i].after = << >>
        /\ (guest_log[i].request_type = 1) =>
               (/\ Len(guest_log[i].written) > 4
                /\ from_be_bytes(SubSeq(guest_log[i].written, 1, 4)) = 1
                /\ guest_log[i].written[Len(guest_log[i].written)] = Newline)
        /\ (guest_log[i].request_type # 1) => (guest_log[i].written = << >>)
====
